---- MODULE Spec2Model ----
(***************************************************************************)
(* Client lifecycle of the parrot IM library: the ClientPool (pool.go),    *)
(* the factory (NewIMClient), and the multi-target delivery loop of the    *)
(* platform adapters (lark, telegram, wechat).                             *)
(*                                                                         *)
(* Twelve specifications share the variables:                              *)
(*   Spec        the pool: callers running GetOrCreate / Get / Remove /    *)
(*               Size / Close concurrently with the cleanup goroutine and  *)
(*               a discrete clock.  A section of code that runs under      *)
(*               p.mu (write lock, or read lock) is one step: the steps    *)
(*               of a call are its critical sections, and the states       *)
(*               between them are the points where the lock is free;       *)
(*   SpecCreate  the creation paths, GetOrCreate and NewIMClient, with     *)
(*               every (platform, config) pair;                            *)
(*   SpecSend    one SendMessage call of an adapter, attempt by attempt;   *)
(*   SpecShutdown  the pool with Close called again on a closed pool;      *)
(*   SpecToken   the access token cache of an adapter: getToken,           *)
(*               refreshToken and Close over a clock in seconds;           *)
(*   SpecSendEntry  the entry points of a send on every adapter kind,      *)
(*               webhook adapters included: the argument checks of         *)
(*               SendMessage, SendPrivateMessage, SendGroupMessage;        *)
(*   SpecCloseErrors  the pool holding adapters whose Close() may return   *)
(*               an error (the IMParrot interface allows it);              *)
(*   SpecFactory NewIMClient over every platform tag and config, nil and   *)
(*               foreign implementations of types.Config included;         *)
(*   SpecAttempt the network calls of one caller's operation and the ctx   *)
(*               it passed: the construction inside GetOrCreate, or a      *)
(*               SendMessage whose attempts fetch the token and deliver;   *)
(*   SpecNilConfig  the pool called with a nil config;                     *)
(*   SpecLocks, SpecLocksFair  the pool's methods as steps on p.mu, on     *)
(*               p.closeChan and on p.wg, without and with the fairness    *)
(*               of the scheduler.                                         *)
(***************************************************************************)
EXTENDS Integers, Sequences, FiniteSets, TLC

\* ------------------------------------------------------------------ bounds
\* Adapter instances the run may construct (ids 1..MaxInst).
MaxInst == 2
\* The clock runs 0..MaxTime.
MaxTime == 4
\* PoolConfig.MaxIdleTime and PoolConfig.CleanupInterval, in clock units.
MaxIdleTime == 1
CleanupInterval == 2

Procs == {"p1", "p2"}
Keys == {"k1", "k2"}
Insts == 1 .. MaxInst
NoInst == 0
DirectInst == MaxInst + 1
NoTime == -1
NoKey == "-"

\* ------------------------------------------------------------------ configs
\* A config value: its concrete type (variant) and, per field, whether the
\* string is non-empty.  lark.Config has AppID, AppSecret, WebhookURL;
\* telegram.Config has BotToken.
Cfg(variant, appID, appSecret, webhookURL, botToken) ==
    [variant |-> variant, AppID |-> appID, AppSecret |-> appSecret,
     WebhookURL |-> webhookURL, BotToken |-> botToken]

LarkConfigs ==
    { Cfg("lark", TRUE, TRUE, FALSE, FALSE),
      Cfg("lark", TRUE, FALSE, FALSE, FALSE),
      Cfg("lark", FALSE, FALSE, TRUE, FALSE) }
TelegramConfigs ==
    { Cfg("telegram", FALSE, FALSE, FALSE, TRUE),
      Cfg("telegram", FALSE, FALSE, FALSE, FALSE) }
Configs == LarkConfigs \cup TelegramConfigs
NoConfig == Cfg("-", FALSE, FALSE, FALSE, FALSE)

PlatformLark == "lark"
PlatformTelegram == "telegram"
Platforms == {PlatformLark, PlatformTelegram}

\* The errors of createClient and NewIMClient (fmt.Errorf texts, arguments left out).
InvalidConfigErr == "invalid config"
MismatchErr == "config platform does not match requested platform"

\* lark.Config.Validate
LarkValidate(c) ==
    IF c.WebhookURL THEN "nil"
    ELSE IF ~c.AppID THEN "AppID is required"
    ELSE IF ~c.AppSecret THEN "AppSecret is required"
    ELSE "nil"

\* telegram.Config.Validate
TelegramValidate(c) == IF ~c.BotToken THEN "BotToken is required" ELSE "nil"

\* types.Config.Validate, dispatched on the concrete type
Validate(c) == IF c.variant = "lark" THEN LarkValidate(c) ELSE TelegramValidate(c)

\* types.Config.GetPlatform: each concrete type returns its own tag
GetPlatform(c) == c.variant

\* lark.NewClient / telegram.NewClient: the error they return.  fetchOK is the
\* outcome of the initial token request lark.NewClient makes outside webhook mode.
LarkNewClient(c, fetchOK) ==
    IF ~c.WebhookURL /\ ~fetchOK THEN "failed to get access token" ELSE "nil"
TelegramNewClient(c, fetchOK) == "nil"

\* The dispatch common to NewIMClient and createClientWithHTTP: the type
\* assertion on the config, then the adapter's constructor.
Dispatch(platform, c, fetchOK) ==
    IF platform = PlatformLark THEN
        IF c.variant # "lark" THEN "invalid config type" ELSE LarkNewClient(c, fetchOK)
    ELSE IF platform = PlatformTelegram THEN
        IF c.variant # "telegram" THEN "invalid config type" ELSE TelegramNewClient(c, fetchOK)
    ELSE "unsupported platform"

createClientWithHTTP(platform, c, fetchOK) == Dispatch(platform, c, fetchOK)

\* createClient without its Validate() call, and without its platform comparison.
createClientNoValidate(platform, c, fetchOK) ==
    IF GetPlatform(c) # platform THEN MismatchErr
    ELSE createClientWithHTTP(platform, c, fetchOK)
createClientNoPlatformCheck(platform, c, fetchOK) ==
    IF Validate(c) # "nil" THEN InvalidConfigErr
    ELSE createClientWithHTTP(platform, c, fetchOK)

\* ClientPool.createClient: the error it returns ("nil": an adapter was built).
createClient(platform, c, fetchOK) ==
    IF Validate(c) # "nil" THEN InvalidConfigErr
    ELSE IF GetPlatform(c) # platform THEN MismatchErr
    ELSE createClientWithHTTP(platform, c, fetchOK)

\* NewIMClient (the config is non-nil here).
NewIMClientErr(platform, c, fetchOK) ==
    IF Validate(c) # "nil" THEN InvalidConfigErr
    ELSE IF GetPlatform(c) # platform THEN MismatchErr
    ELSE Dispatch(platform, c, fetchOK)

\* ------------------------------------------------------------------ state
VARIABLES
    clients,     \* p.clients: key -> instance (NoInst: no entry)
    lastUsed,    \* p.lastUsed: key -> time (NoTime: no entry)
    closeChan,   \* TRUE once close(p.closeChan) ran
    loop,        \* the cleanup goroutine: "select" (in its loop) or "exited"
    tick,        \* a tick is waiting in ticker.C
    now,         \* the clock
    nextId,      \* id of the next adapter instance
    instKey,     \* instance -> the pool key it was built for
    instPlatform,\* instance -> GetPlatformName()
    closeCount,  \* instance -> number of Close() calls the pool made on it
    pc,          \* caller -> position
    arg,         \* caller -> the key argument of the call in flight
    client,      \* caller -> the local variable `client` of GetOrCreate / Get
    ret,         \* the call that returned in the last step, with its result
    dirty,       \* caller -> its key lost its entry since the call began
    built,       \* key -> adapters built for it since its entry was last removed
    got,         \* key -> instances GetOrCreate returned since then
    evictIdle,   \* the idle times (now - lastUsed) at which entries were evicted
    \* one SendMessage call of an adapter
    adapter,       \* "lark" (API mode), "telegram" or "wechat"
    targets,       \* opts.Targets
    sendPc,        \* "start", "loop", "return", "done"
    idx,           \* index in opts.Targets of the target of the outer loop
    retry,         \* the inner loop's retry
    lastErr,       \* the inner loop's lastErr
    successCount,
    failedTargets,
    sendRet,       \* what SendMessage returned
    tries,         \* per target, the outcomes of its attempts so far (TRUE: sent)
    slept,         \* per target, the time.Sleep durations after its attempts (ms)
    entry,         \* the method called: "SendMessage" or "SendPrivateMessage"
    msg,           \* the msg argument: "nil", or "text" (a text message)
    optsNil,       \* the opts argument of SendMessage is nil
    posted         \* requests sent to the adapter's webhook URL

\* the token manager and the closed flag of one adapter (lark, wechat; telegram
\* has the closed flag only)
VARIABLES
    kind,        \* the adapter's package: "lark", "wechat" or "telegram"
    token,       \* c.token: the id of the refresh that returned it (NoToken: "")
    tokenExpiry, \* c.tokenExpiry, in seconds on the clock
    stored,      \* the refresh that wrote c.tokenExpiry: its id, ttl, times
    closed,      \* c.closed
    ownsHTTP,    \* c.ownsHTTP
    idleCloses,  \* calls of c.httpClient.CloseIdleConnections() by the adapter
    clock,       \* time.Now(), in seconds
    nextRefresh, \* refresh requests sent so far
    tpc,         \* caller -> position in getToken
    resp,        \* caller -> tokenResp of its refresh in flight
    calls,       \* caller -> refresh requests its getToken call has sent
    tret         \* the call that returned in the last step, with its result

\* the ctx of the caller's operation, and what its attempts ran into
VARIABLES
    ctxDone,     \* the ctx the caller passed is cancelled (or past its deadline)
    tokenFailed, \* the <<target index, retry>> attempts at which getToken failed
    factory,     \* one NewIMClient call: its arguments and its result
    mu           \* p.mu (sync.RWMutex): the writer that announced itself, the readers

callVars == <<ctxDone, tokenFailed, factory, mu>>

tokenVars == <<kind, token, tokenExpiry, stored, closed, ownsHTTP, idleCloses,
               clock, nextRefresh, tpc, resp, calls, tret>>

poolVars == <<clients, lastUsed, closeChan, loop, tick, now, nextId, instKey,
              instPlatform, closeCount, pc, arg, client, ret, dirty, built, got,
              evictIdle>>
sendVars == <<adapter, targets, sendPc, idx, retry, lastErr, successCount,
              failedTargets, sendRet, tries, slept, entry, msg, optsNil, posted>>
vars == <<poolVars, sendVars, tokenVars, callVars>>

NoArg == NoKey
NoRet == [op |-> "-", how |-> "-", key |-> NoKey, platform |-> "-",
          config |-> NoConfig, val |-> NoInst, err |-> "nil",
          closed |-> <<>>, failed |-> {}, idle |-> <<>>]

\* ClientPool.Size's len(p.clients)
Size == Cardinality({k \in Keys : clients[k] # NoInst})

\* Calls in flight that may still build an adapter.
Building == {q \in Procs : pc[q] = "goc_miss"}
CanBuild == nextId + Cardinality(Building) <= MaxInst

InitPool ==
    /\ clients = [k \in Keys |-> NoInst]
    /\ lastUsed = [k \in Keys |-> NoTime]
    /\ closeChan = FALSE
    /\ loop = "select"
    /\ tick = FALSE
    /\ now = 0
    /\ nextId = 1
    /\ instKey = [i \in Insts |-> NoKey]
    /\ instPlatform = [i \in Insts |-> "-"]
    /\ closeCount = [i \in Insts |-> 0]
    /\ pc = [p \in Procs |-> "idle"]
    /\ arg = [p \in Procs |-> NoArg]
    /\ client = [p \in Procs |-> NoInst]
    /\ ret = NoRet
    /\ dirty = [p \in Procs |-> FALSE]
    /\ built = [k \in Keys |-> 0]
    /\ got = [k \in Keys |-> {}]
    /\ evictIdle = {}

NoErr == "nil"
NoSendRet == [err |-> "-"]

\* No SendMessage call is under way.
InitSendIdle ==
    /\ adapter = "-"
    /\ targets = <<>>
    /\ sendPc = "-"
    /\ idx = 0
    /\ retry = 0
    /\ lastErr = NoErr
    /\ successCount = 0
    /\ failedTargets = <<>>
    /\ sendRet = NoSendRet
    /\ tries = <<>>
    /\ slept = <<>>
    /\ entry = "-"
    /\ msg = "-"
    /\ optsNil = FALSE
    /\ posted = 0

NoToken == 0
NoResp == [id |-> NoToken, ttl |-> 0, issued |-> 0]
NoStored == [by |-> NoToken, ttl |-> 0, issued |-> 0, at |-> 0]
NoTokenRet == [op |-> "-", token |-> NoToken, err |-> "nil", cached |-> FALSE,
               readNow |-> 0, readExpiry |-> 0, refreshes |-> 0]

\* No adapter's token manager is under observation.
InitTokenIdle ==
    /\ kind = "-"
    /\ token = NoToken
    /\ tokenExpiry = 0
    /\ stored = NoStored
    /\ closed = FALSE
    /\ ownsHTTP = FALSE
    /\ idleCloses = 0
    /\ clock = 0
    /\ nextRefresh = 0
    /\ tpc = [p \in Procs |-> "idle"]
    /\ resp = [p \in Procs |-> NoResp]
    /\ calls = [p \in Procs |-> 0]
    /\ tret = NoTokenRet

\* The caller's ctx is live, and no attempt was made.
NoFactory == [pc |-> "-"]
\* p.mu with no writer and no reader.
NoLock == [w |-> "-", r |-> {}]
InitCall ==
    /\ mu = NoLock
    /\ ctxDone = FALSE
    /\ tokenFailed = {}
    /\ factory = NoFactory

Init == InitPool /\ InitSendIdle /\ InitTokenIdle /\ InitCall

\* ------------------------------------------------------------------ helpers
\* The record of a returned call; `how` names the return statement taken.
Result(op, how, k, platform, config, val, err) ==
    [op |-> op, how |-> how, key |-> k, platform |-> platform, config |-> config,
     val |-> val, err |-> err, closed |-> <<>>, failed |-> {}, idle |-> <<>>]

\* The pool's shared *http.Client, and the nil an adapter constructor may get.
HTTPPool == "p.httpPool"
NilHTTP == "nil"
\* The httpClient argument of the constructor of a pooled adapter:
\* createClient hands p.httpPool to createClientWithHTTP.
PooledHTTP == HTTPPool

\* An adapter that takes every transport for its own.
OwnsHTTPAlways(httpClient) == TRUE
\* NewClient: ownsHTTP is set when no httpClient was passed in, and the
\* adapter then uses one of its own.
OwnsHTTP(httpClient) == httpClient = NilHTTP
AdapterHTTP(httpClient) == IF httpClient = NilHTTP THEN "own" ELSE httpClient

\* The CloseIdleConnections() calls made by the Close() of the pooled
\* adapters in `order`: each names the transport, and the number of adapter
\* Close() calls of the step that came before it.
AdapterIdleCloses(order) ==
    IF OwnsHTTP(PooledHTTP)
    THEN [n \in 1 .. Len(order) |-> [on |-> AdapterHTTP(PooledHTTP), after |-> n - 1]]
    ELSE <<>>
\* p.httpPool.CloseIdleConnections() at the end of ClientPool.Close.
PoolIdleClose(r) == [r EXCEPT !.idle = Append(@, [on |-> HTTPPool, after |-> Len(r.closed)])]

\* The record of a step that called Close() on adapters: `closed` lists the
\* instances in the order of the calls, `failed` those whose Close() returned
\* an error.
Closing(r, order, fails) ==
    [r EXCEPT !.closed = order, !.failed = {order[n] : n \in DOMAIN order} \cap fails,
              !.idle = AdapterIdleCloses(order)]

\* The caller returns: its frame is dropped and the result r is reported.
Return(p, r) ==
    /\ pc' = [pc EXCEPT ![p] = "idle"]
    /\ arg' = [arg EXCEPT ![p] = NoArg]
    /\ client' = [client EXCEPT ![p] = NoInst]
    /\ ret' = r

\* The caller moves on inside its call.
Goto(p, label) ==
    /\ pc' = [pc EXCEPT ![p] = label]
    /\ ret' = NoRet

InGetOrCreate(q) == pc[q] \in {"goc_hit", "goc_miss"}

\* Bookkeeping when the entries of the keys K are deleted by `who`: the windows
\* of those keys restart, and GetOrCreate calls in flight on them are marked.
Dropped(K, who) ==
    /\ built' = [k \in Keys |-> IF k \in K THEN 0 ELSE built[k]]
    /\ got' = [k \in Keys |-> IF k \in K THEN {} ELSE got[k]]
    /\ dirty' = [q \in Procs |->
                   IF q = who THEN FALSE
                   ELSE IF InGetOrCreate(q) /\ arg[q] \in K THEN TRUE
                   ELSE dirty[q]]

\* Bookkeeping when GetOrCreate returns instance i for key k to caller p.
Handed(p, k, i) ==
    /\ got' = [got EXCEPT ![k] = IF dirty[p] THEN @ ELSE @ \cup {i}]
    /\ dirty' = [dirty EXCEPT ![p] = FALSE]

\* IMParrot.Close() returns an error value.  The adapters of this repository
\* (lark, telegram, dingtalk, wechat) return nil from every Close(): the set of
\* instances whose Close() fails is empty for them.  The pool is written against
\* the interface, whose Close() may return an error; it is named here by the
\* instance that returned it.
CloseErr(i) == "close error " \o ToString(i)
NoFailures == {{}}
AnyFailures == SUBSET Insts
\* The result of client.Close() on instance i when the Close() of `fails` fail.
CloseResult(i, fails) == IF i \in fails THEN CloseErr(i) ELSE "nil"

\* The orders in which a range over a map (or a slice built from one) visits
\* the instances of I: Go leaves the order unspecified.
Orders(I) ==
    {o \in [1 .. Cardinality(I) -> I] : \A m, n \in 1 .. Cardinality(I) : o[m] = o[n] => m = n}

\* client.Close() called by the pool on each instance of I.
CloseAll(I) == [i \in Insts |-> IF i \in I THEN closeCount[i] + 1 ELSE closeCount[i]]

\* A deletion that leaves p.clients as it is.
DeleteNoClients(K) == clients

\* delete(p.clients, key); delete(p.lastUsed, key) for each key of K.
DeleteClients(K) == [k \in Keys |-> IF k \in K THEN NoInst ELSE clients[k]]
DeleteLastUsed(K) == [k \in Keys |-> IF k \in K THEN NoTime ELSE lastUsed[k]]

\* ------------------------------------------------------------------ GetOrCreate
\* The arguments platform and config are first read by createClient on the
\* slow path; a call draws them in the step that reads or reports them.

\* `if client, ok := p.clients[key]; ok` on the fast path (under RLock).
FastCheck(k) == clients[k] # NoInst

\* A slow path that trusts the fast path's miss (no double check).
DoubleCheckSkipped(k) == FALSE

\* The double check under the write lock.
DoubleCheck(k) == clients[k] # NoInst

\* RLock; lookup; RUnlock.  A hit keeps the instance in the local `client`.
GetOrCreate_Begin(p, k) ==
    /\ pc[p] = "idle"
    /\ arg' = [arg EXCEPT ![p] = k]
    /\ IF FastCheck(k)
       THEN /\ client' = [client EXCEPT ![p] = clients[k]]
            /\ Goto(p, "goc_hit")
       ELSE /\ CanBuild
            /\ client' = client
            /\ Goto(p, "goc_miss")
    /\ UNCHANGED <<clients, lastUsed, closeChan, loop, tick, now, nextId, instKey,
                   instPlatform, closeCount, dirty, built, got, evictIdle>>
    /\ UNCHANGED <<sendVars, tokenVars, callVars>>

\* The fast path after its lookup hit:
\* Lock; p.lastUsed[key] = time.Now(); Unlock; return client, nil
GetOrCreate_Hit(p, platform, config) ==
    /\ pc[p] = "goc_hit"
    /\ lastUsed' = [lastUsed EXCEPT ![arg[p]] = now]
    /\ Return(p, Result("GetOrCreate", "fast", arg[p], platform, config, client[p], "nil"))
    /\ Handed(p, arg[p], client[p])
    /\ UNCHANGED <<clients, closeChan, loop, tick, now, nextId, instKey,
                   instPlatform, closeCount, built, evictIdle>>
    /\ UNCHANGED <<sendVars, tokenVars, callVars>>

\* A slow path that stamps the key's last-used time before it builds.
GetOrCreate_SlowStampsFirst(p, platform, config, fetchOK) ==
    /\ pc[p] = "goc_miss"
    /\ ~DoubleCheck(arg[p])
    /\ createClient(platform, config, fetchOK) # "nil"
    /\ lastUsed' = [lastUsed EXCEPT ![arg[p]] = now]
    /\ Return(p, Result("GetOrCreate", "failed", arg[p], platform, config, NoInst,
                        createClient(platform, config, fetchOK)))
    /\ dirty' = [dirty EXCEPT ![p] = FALSE]
    /\ UNCHANGED <<clients, nextId, instKey, instPlatform, built, got>>
    /\ UNCHANGED <<closeChan, loop, tick, now, closeCount, evictIdle>>
    /\ UNCHANGED <<sendVars, tokenVars, callVars>>

\* The slow path: Lock; double check; createClient; insert; stamp; deferred
\* Unlock; return.
GetOrCreate_Slow(p, platform, config, fetchOK) ==
    /\ pc[p] = "goc_miss"
    /\ LET k == arg[p]
           err == createClient(platform, config, fetchOK)
       IN
       IF DoubleCheck(k)
       THEN /\ lastUsed' = [lastUsed EXCEPT ![k] = now]
            /\ Return(p, Result("GetOrCreate", "rechecked", k, platform, config, clients[k], "nil"))
            /\ Handed(p, k, clients[k])
            /\ UNCHANGED <<clients, nextId, instKey, instPlatform, built>>
       ELSE IF err # "nil"
       THEN /\ Return(p, Result("GetOrCreate", "failed", k, platform, config, NoInst, err))
            /\ dirty' = [dirty EXCEPT ![p] = FALSE]
            /\ UNCHANGED <<clients, lastUsed, nextId, instKey, instPlatform,
                           built, got>>
       ELSE /\ clients' = [clients EXCEPT ![k] = nextId]
            /\ lastUsed' = [lastUsed EXCEPT ![k] = now]
            /\ instKey' = [instKey EXCEPT ![nextId] = k]
            /\ instPlatform' = [instPlatform EXCEPT ![nextId] = platform]
            /\ nextId' = nextId + 1
            /\ built' = [built EXCEPT ![k] = @ + 1]
            /\ Return(p, Result("GetOrCreate", "created", k, platform, config, nextId, "nil"))
            /\ Handed(p, k, nextId)
    /\ UNCHANGED <<closeChan, loop, tick, now, closeCount, evictIdle>>
    /\ UNCHANGED <<sendVars, tokenVars, callVars>>

\* ------------------------------------------------------------------ Get
\* RLock; lookup.  A miss returns (nil, false) through the deferred RUnlock;
\* a hit gives the read lock up (RUnlock) to take the write lock.
Get_Begin(p, k) ==
    /\ pc[p] = "idle"
    /\ IF clients[k] = NoInst
       THEN /\ Return(p, Result("Get", "miss", k, "-", NoConfig, NoInst, "nil"))
       ELSE /\ Goto(p, "get_hit")
            /\ arg' = [arg EXCEPT ![p] = k]
            /\ client' = [client EXCEPT ![p] = clients[k]]
    /\ UNCHANGED <<clients, lastUsed, closeChan, loop, tick, now, nextId, instKey,
                   instPlatform, closeCount, dirty, built, got, evictIdle>>
    /\ UNCHANGED <<sendVars, tokenVars, callVars>>

\* Lock; p.lastUsed[key] = time.Now(); Unlock; RLock; return client, ok
\* through the deferred RUnlock.
Get_Hit(p) ==
    /\ pc[p] = "get_hit"
    /\ lastUsed' = [lastUsed EXCEPT ![arg[p]] = now]
    /\ Return(p, Result("Get", "hit", arg[p], "-", NoConfig, client[p], "nil"))
    /\ UNCHANGED <<clients, closeChan, loop, tick, now, nextId, instKey,
                   instPlatform, closeCount, dirty, built, got, evictIdle>>
    /\ UNCHANGED <<sendVars, tokenVars, callVars>>

\* ------------------------------------------------------------------ Remove, Size
\* A Remove that reports a missing key as an error.
RemoveStrict(p, k, fails) ==
    /\ pc[p] = "idle"
    /\ IF clients[k] = NoInst
       THEN UNCHANGED <<clients, lastUsed, closeCount, dirty, built, got>>
       ELSE /\ clients' = [j \in Keys |-> IF j = k THEN NoInst ELSE clients[j]]
            /\ lastUsed' = [j \in Keys |-> IF j = k THEN NoTime ELSE lastUsed[j]]
            /\ closeCount' = CloseAll({clients[k]})
            /\ Dropped({k}, p)
    /\ Return(p, Result("Remove", "-", k, "-", NoConfig, NoInst,
                        IF clients[k] = NoInst THEN "client not found" ELSE "nil"))
    /\ UNCHANGED <<closeChan, loop, tick, now, nextId, instKey, instPlatform, evictIdle>>
    /\ UNCHANGED <<sendVars, tokenVars, callVars>>

\* A Remove that deletes the entry only when Close() succeeded.
RemoveKeepsOnError(p, k, fails) ==
    /\ pc[p] = "idle"
    /\ clients[k] # NoInst
    /\ IF clients[k] \in fails
       THEN UNCHANGED <<clients, lastUsed, dirty, built, got>>
       ELSE /\ clients' = DeleteClients({k})
            /\ lastUsed' = DeleteLastUsed({k})
            /\ Dropped({k}, p)
    /\ closeCount' = CloseAll({clients[k]})
    /\ Return(p, Closing(Result("Remove", "closed", k, "-", NoConfig, clients[k],
                                 CloseResult(clients[k], fails)),
                          <<clients[k]>>, fails))
    /\ UNCHANGED <<closeChan, loop, tick, now, nextId, instKey, instPlatform, evictIdle>>
    /\ UNCHANGED <<sendVars, tokenVars, callVars>>

\* Lock; lookup; delete from both maps; return client.Close(); deferred Unlock.
Remove(p, k, fails) ==
    /\ pc[p] = "idle"
    /\ IF clients[k] = NoInst
       THEN /\ UNCHANGED <<clients, lastUsed, closeCount, dirty, built, got>>
            /\ Return(p, Result("Remove", "absent", k, "-", NoConfig, NoInst, "nil"))
       ELSE /\ clients' = DeleteClients({k})
            /\ lastUsed' = DeleteLastUsed({k})
            /\ closeCount' = CloseAll({clients[k]})
            /\ Dropped({k}, p)
            /\ Return(p, Closing(Result("Remove", "closed", k, "-", NoConfig, clients[k],
                                         CloseResult(clients[k], fails)),
                                  <<clients[k]>>, fails))
    /\ UNCHANGED <<closeChan, loop, tick, now, nextId, instKey, instPlatform, evictIdle>>
    /\ UNCHANGED <<sendVars, tokenVars, callVars>>

\* RLock; len(p.clients); RUnlock
Size_Call(p) ==
    /\ pc[p] = "idle"
    /\ Return(p, Result("Size", "-", NoKey, "-", NoConfig, Size, "nil"))
    /\ UNCHANGED <<clients, lastUsed, closeChan, loop, tick, now, nextId, instKey,
                   instPlatform, closeCount, dirty, built, got, evictIdle>>
    /\ UNCHANGED <<sendVars, tokenVars, callVars>>

\* ------------------------------------------------------------------ Close
\* close(p.closeChan).  The pool is shut down once: a second close of the
\* channel is not part of this model.
Close_Begin(p) ==
    /\ pc[p] = "idle"
    /\ ~closeChan
    /\ closeChan' = TRUE
    /\ Goto(p, "cl_wait")
    /\ UNCHANGED <<clients, lastUsed, loop, tick, now, nextId, instKey,
                   instPlatform, closeCount, arg, client, dirty, built, got,
                   evictIdle>>
    /\ UNCHANGED <<sendVars, tokenVars, callVars>>

\* A Close that keeps the error of the first failing adapter, and one whose
\* wait returns at once.
FirstErr(order, fails) ==
    LET F == {n \in DOMAIN order : order[n] \in fails}
    IN IF F = {} THEN "nil"
       ELSE CloseErr(order[CHOOSE n \in F : \A m \in F : n <= m])
WaitSkipped == TRUE

\* var lastErr error; for ... { if err := client.Close(); err != nil { lastErr = err } }
LastErr(order, fails) ==
    LET F == {n \in DOMAIN order : order[n] \in fails}
    IN IF F = {} THEN "nil"
       ELSE CloseErr(order[CHOOSE n \in F : \A m \in F : m <= n])

\* p.wg.Wait(): returns once cleanupLoop has run its deferred wg.Done().
WaitReturns == loop = "exited"

\* p.wg.Wait() returns once cleanupLoop has exited; then Lock; close and
\* delete every entry of p.clients in the order of the range over the map;
\* p.httpPool.CloseIdleConnections(); deferred Unlock; return lastErr.
Close_Body(p, order, fails) ==
    /\ pc[p] = "cl_wait"
    /\ WaitReturns
    /\ LET K == {k \in Keys : clients[k] # NoInst} IN
       /\ order \in Orders({clients[k] : k \in K})
       /\ closeCount' = CloseAll({clients[k] : k \in K})
       /\ clients' = DeleteClients(K)
       /\ lastUsed' = DeleteLastUsed(K)
       /\ Dropped(K, p)
    /\ Return(p, PoolIdleClose(Closing(Result("Close", "-", NoKey, "-", NoConfig, NoInst,
                                               LastErr(order, fails)),
                                        order, fails)))
    /\ UNCHANGED <<closeChan, loop, tick, now, nextId, instKey, instPlatform, evictIdle>>
    /\ UNCHANGED <<sendVars, tokenVars, callVars>>

\* ------------------------------------------------------------------ factory
\* NewIMClient(platform, config): the checks, then the adapter constructor.
\* The adapter it builds is the caller's own (DirectInst): it never enters the pool.
NewIMClient_Call(p, platform, config, fetchOK) ==
    /\ pc[p] = "idle"
    /\ LET err == NewIMClientErr(platform, config, fetchOK) IN
       Return(p, Result("NewIMClient", "-", NoKey, platform, config,
                        IF err = "nil" THEN DirectInst ELSE NoInst, err))
    /\ UNCHANGED <<clients, lastUsed, closeChan, loop, tick, now, nextId, instKey,
                   instPlatform, closeCount, dirty, built, got, evictIdle>>
    /\ UNCHANGED <<sendVars, tokenVars, callVars>>

\* ------------------------------------------------------------------ cleanup
\* Two other idle tests: at least MaxIdleTime, and more than one unit beyond it.
IdleAtLeast(k) == now - lastUsed[k] >= MaxIdleTime
IdleTooLongLate(k) == now - lastUsed[k] > MaxIdleTime + 1

\* now.Sub(lastUsed) > p.maxIdle
IdleTooLong(k) == now - lastUsed[k] > MaxIdleTime

\* The keys cleanupIdle closes and deletes: the idle keys of p.lastUsed that
\* have an entry in p.clients.
ToEvict ==
    LET toRemove == {k \in Keys : lastUsed[k] # NoTime /\ IdleTooLong(k)}
    IN {k \in toRemove : clients[k] # NoInst}

\* The sequences a range over a map may produce for the instances of I.
InstOrders == UNION {Orders(I) : I \in SUBSET Insts}

\* A pass that stops at the first Close() that fails.
cleanupIdleStopsOnError(order, fails) ==
    /\ loop = "select"
    /\ tick
    /\ tick' = FALSE
    /\ order \in Orders({clients[k] : k \in ToEvict})
    /\ LET F == {n \in DOMAIN order : order[n] \in fails}
           done == {order[n] : n \in {m \in DOMAIN order : \A f \in F : m < f}}
           K == {k \in ToEvict : clients[k] \in done}
       IN /\ closeCount' = CloseAll(done)
          /\ clients' = DeleteClients(K)
          /\ lastUsed' = DeleteLastUsed(K)
          /\ Dropped(K, "cleanup")
          /\ evictIdle' = evictIdle \cup {now - lastUsed[k] : k \in K}
    /\ ret' = Closing(Result("cleanupIdle", "-", NoKey, "-", NoConfig, NoInst, "nil"),
                      order, fails)
    /\ UNCHANGED <<closeChan, loop, now, nextId, instKey, instPlatform, pc, arg,
                   client>>
    /\ UNCHANGED <<sendVars, tokenVars, callVars>>

\* case <-ticker.C: cleanupIdle(): Lock; collect; close and delete each entry,
\* the result of Close() dropped (`_ = client.Close()`); Unlock.
cleanupIdle(order, fails) ==
    /\ loop = "select"
    /\ tick
    /\ tick' = FALSE
    /\ order \in Orders({clients[k] : k \in ToEvict})
    /\ closeCount' = CloseAll({clients[k] : k \in ToEvict})
    /\ clients' = DeleteClients(ToEvict)
    /\ lastUsed' = DeleteLastUsed(ToEvict)
    /\ Dropped(ToEvict, "cleanup")
    /\ evictIdle' = evictIdle \cup {now - lastUsed[k] : k \in ToEvict}
    /\ ret' = Closing(Result("cleanupIdle", "-", NoKey, "-", NoConfig, NoInst, "nil"),
                      order, fails)
    /\ UNCHANGED <<closeChan, loop, now, nextId, instKey, instPlatform, pc, arg,
                   client>>
    /\ UNCHANGED <<sendVars, tokenVars, callVars>>

\* case <-p.closeChan: return (wg.Done, ticker.Stop deferred).
cleanupLoop_Exit ==
    /\ loop = "select"
    /\ closeChan
    /\ loop' = "exited"
    /\ ret' = NoRet
    /\ UNCHANGED <<clients, lastUsed, closeChan, tick, now, nextId, instKey,
                   instPlatform, closeCount, pc, arg, client, dirty, built, got,
                   evictIdle>>
    /\ UNCHANGED <<sendVars, tokenVars, callVars>>

\* The clock advances one unit; the ticker fires every CleanupInterval while
\* the loop lives.  A cleanup pass is short against the clock unit: the clock
\* waits for the pass of a tick that has fired.
AdvanceTime ==
    /\ now < MaxTime
    /\ loop = "exited" \/ ~tick
    /\ now' = now + 1
    /\ tick' = IF loop # "exited" /\ (now + 1) % CleanupInterval = 0 THEN TRUE ELSE tick
    /\ ret' = NoRet
    /\ UNCHANGED <<clients, lastUsed, closeChan, loop, nextId, instKey,
                   instPlatform, closeCount, pc, arg, client, dirty, built, got,
                   evictIdle>>
    /\ UNCHANGED <<sendVars, tokenVars, callVars>>

\* ------------------------------------------------------------------ the pool
\* The (platform, config) pairs the callers of the pool specification pass:
\* a Lark app (its constructor fetches a token and may fail), and a Lark
\* config that fails Validate().
PoolRequests ==
    { [platform |-> PlatformLark, config |-> Cfg("lark", TRUE, TRUE, FALSE, FALSE)],
      [platform |-> PlatformLark, config |-> Cfg("lark", TRUE, FALSE, FALSE, FALSE)] }

Next ==
    \/ \E p \in Procs, k \in Keys : GetOrCreate_Begin(p, k)
    \/ \E p \in Procs, rq \in PoolRequests : GetOrCreate_Hit(p, rq.platform, rq.config)
    \/ \E p \in Procs, rq \in PoolRequests, fetchOK \in BOOLEAN :
          GetOrCreate_Slow(p, rq.platform, rq.config, fetchOK)
    \/ \E p \in Procs, k \in Keys : Get_Begin(p, k)
    \/ \E p \in Procs : Get_Hit(p)
    \/ \E p \in Procs, k \in Keys, fails \in NoFailures : Remove(p, k, fails)
    \/ \E p \in Procs : Size_Call(p)
    \/ \E p \in Procs : Close_Begin(p)
    \/ \E p \in Procs, order \in InstOrders, fails \in NoFailures :
          Close_Body(p, order, fails)
    \/ \E order \in InstOrders, fails \in NoFailures : cleanupIdle(order, fails)
    \/ cleanupLoop_Exit
    \/ AdvanceTime

Spec == Init /\ [][Next]_vars

\* ------------------------------------------------------------------ failing Close()
\* The pool holding adapters whose Close() may return an error: the calls that
\* close adapters (Remove, Close, the cleanup pass) with the calls that fill
\* the pool.
NextCloseErrors ==
    \/ \E p \in Procs, k \in Keys : GetOrCreate_Begin(p, k)
    \/ \E p \in Procs, rq \in PoolRequests : GetOrCreate_Hit(p, rq.platform, rq.config)
    \/ \E p \in Procs, rq \in PoolRequests, fetchOK \in BOOLEAN :
          GetOrCreate_Slow(p, rq.platform, rq.config, fetchOK)
    \/ \E p \in Procs, k \in Keys, fails \in AnyFailures : Remove(p, k, fails)
    \/ \E p \in Procs : Close_Begin(p)
    \/ \E p \in Procs, order \in InstOrders, fails \in AnyFailures :
          Close_Body(p, order, fails)
    \/ \E order \in InstOrders, fails \in AnyFailures : cleanupIdle(order, fails)
    \/ cleanupLoop_Exit
    \/ AdvanceTime

SpecCloseErrors == Init /\ [][NextCloseErrors]_vars

\* ------------------------------------------------------------------ creation
\* The creation paths with every (platform, config) pair: GetOrCreate and
\* NewIMClient, with Remove to empty a key again; the clock stands still.
NextCreate ==
    \/ \E p \in Procs, k \in Keys : GetOrCreate_Begin(p, k)
    \/ \E p \in Procs, platform \in Platforms, config \in Configs :
          GetOrCreate_Hit(p, platform, config)
    \/ \E p \in Procs, platform \in Platforms, config \in Configs, fetchOK \in BOOLEAN :
          GetOrCreate_Slow(p, platform, config, fetchOK)
    \/ \E p \in Procs, k \in Keys, fails \in NoFailures : Remove(p, k, fails)
    \/ \E p \in Procs : Size_Call(p)
    \/ \E p \in Procs, platform \in Platforms, config \in Configs, fetchOK \in BOOLEAN :
          NewIMClient_Call(p, platform, config, fetchOK)

SpecCreate == Init /\ [][NextCreate]_vars

\* ------------------------------------------------------------------ sending
\* One SendMessage call of an adapter that retries per target (Lark in API
\* mode, Telegram, WeChat: the three loops are the same text).  The message
\* and the options are not nil.
MaxTargets == 3
maxRetries == 3
Adapters == {"lark", "telegram", "wechat"}
TargetSet == { [ID |-> "u1", ChatType |-> "private"], [ID |-> "g1", ChatType |-> "group"] }
TargetLists == UNION { [1 .. n -> TargetSet] : n \in 0 .. MaxTargets }

\* The error a failed sendToSingleTarget returns: every failed attempt returns
\* an error value of its own, named here by the target's position and the retry.
AttemptErr(i, r) == [target |-> i, retry |-> r]

\* Other loop parameters: a fourth attempt, a constant backoff, and a result
\* that reports success as soon as one target was reached.
RetryLoopCondFour(r) == r < maxRetries + 1
BackoffConstant(r) == 100
SendResultLenient(failed, success, total) ==
    IF success = 0 /\ Len(failed) > 0
    THEN [err |-> "SendError", FailedTargets |-> failed, SuccessCount |-> success,
          TotalCount |-> total]
    ELSE [err |-> "nil"]

\* for retry := 0; retry < maxRetries; retry++
RetryLoopCond(r) == r < maxRetries
\* if retry < maxRetries-1 { time.Sleep(...) }
ShouldSleep(r) == r < maxRetries - 1
\* time.Duration(100*(retry+1)) * time.Millisecond, in ms
Backoff(r) == 100 * (r + 1)
\* failedTargets = append(failedTargets, types.FailedTarget{Target, Error})
FailedTarget(t, e) == [Target |-> t, Error |-> e]
\* if len(failedTargets) > 0 { return &types.SendError{...} }; return nil
SendResult(failed, success, total) ==
    IF Len(failed) > 0
    THEN [err |-> "SendError", FailedTargets |-> failed, SuccessCount |-> success,
          TotalCount |-> total]
    ELSE [err |-> NoErr]

\* SendMessage is entered with an adapter and a target list.
InitSendCall ==
    /\ adapter \in Adapters
    /\ targets \in TargetLists
    /\ sendPc = "start"
    /\ idx = 0
    /\ retry = 0
    /\ lastErr = NoErr
    /\ successCount = 0
    /\ failedTargets = <<>>
    /\ sendRet = NoSendRet
    /\ tries = [i \in 1 .. Len(targets) |-> <<>>]
    /\ slept = [i \in 1 .. Len(targets) |-> <<>>]
    /\ entry = "SendMessage"
    /\ msg = "text"
    /\ optsNil = FALSE
    /\ posted = 0

\* msg == nil || opts == nil
ArgsNilMsgOnly == msg = "nil"
ArgsNil == msg = "nil" \/ optsNil
\* The adapter sends to its webhook, whatever the targets: a Lark client with
\* config.WebhookURL set, and the DingTalk robot.
WebhookMode == adapter \in {"lark-webhook", "dingtalk"}

\* The checks before the loop, and the loop's initialisation.
SendMessage_Begin ==
    /\ sendPc = "start"
    /\ IF ArgsNil
       THEN /\ sendRet' = [err |-> "message and options cannot be nil"]
            /\ sendPc' = "done"
            /\ idx' = idx
       ELSE IF WebhookMode
       THEN /\ sendRet' = sendRet
            /\ sendPc' = "webhook"
            /\ idx' = idx
       ELSE IF Len(targets) = 0
       THEN /\ sendRet' = [err |-> "at least one target is required"]
            /\ sendPc' = "done"
            /\ idx' = idx
       ELSE /\ sendRet' = sendRet
            /\ sendPc' = "loop"
            /\ idx' = 1
    /\ UNCHANGED <<adapter, targets, retry, lastErr, successCount, failedTargets,
                   tries, slept, entry, msg, optsNil, posted>>
    /\ UNCHANGED <<poolVars, tokenVars, callVars>>

\* The outer loop moves to the next target, or leaves the loop after the last.
NextTarget ==
    /\ idx' = idx + 1
    /\ retry' = 0
    /\ lastErr' = NoErr
    /\ sendPc' = IF idx + 1 > Len(targets) THEN "return" ELSE "loop"

\* One iteration of the inner loop for target idx: sendToSingleTarget returns
\* nil (ok) or an error; after the last iteration the target is recorded.
Attempt(ok) ==
    /\ sendPc = "loop"
    /\ tries' = [tries EXCEPT ![idx] = Append(@, ok)]
    /\ IF ok
       THEN /\ successCount' = successCount + 1
            /\ NextTarget
            /\ UNCHANGED <<failedTargets, slept>>
       ELSE /\ slept' = IF ShouldSleep(retry)
                        THEN [slept EXCEPT ![idx] = Append(@, Backoff(retry))]
                        ELSE slept
            /\ IF RetryLoopCond(retry + 1)
               THEN /\ retry' = retry + 1
                    /\ lastErr' = AttemptErr(idx, retry)
                    /\ UNCHANGED <<idx, sendPc, failedTargets>>
               ELSE /\ failedTargets' =
                          Append(failedTargets,
                                 FailedTarget(targets[idx], AttemptErr(idx, retry)))
                    /\ NextTarget
            /\ UNCHANGED successCount
    /\ UNCHANGED <<adapter, targets, sendRet, entry, msg, optsNil, posted>>

\* An iteration whose sendToSingleTarget is taken as a whole.
SendMessage_Attempt(ok) ==
    /\ Attempt(ok)
    /\ UNCHANGED <<poolVars, tokenVars, callVars>>

SendMessage_Return ==
    /\ sendPc = "return"
    /\ sendRet' = SendResult(failedTargets, successCount, Len(targets))
    /\ sendPc' = "done"
    /\ UNCHANGED <<adapter, targets, idx, retry, lastErr, successCount,
                   failedTargets, tries, slept, entry, msg, optsNil, posted>>
    /\ UNCHANGED <<poolVars, tokenVars, callVars>>

NextSend ==
    \/ SendMessage_Begin
    \/ \E ok \in BOOLEAN : SendMessage_Attempt(ok)
    \/ SendMessage_Return

InitSend == InitPool /\ InitSendCall /\ InitTokenIdle /\ InitCall

SpecSend == InitSend /\ [][NextSend]_vars

\* ---------------------------------------------------------------------------
\* The entry points of a send on every adapter kind: SendMessage with its
\* argument checks and the webhook branch, and SendPrivateMessage.
\* ---------------------------------------------------------------------------

\* The adapter kinds; "lark" is a Lark client in API mode, "lark-webhook" one
\* whose config.WebhookURL is set.
AllAdapters == Adapters \cup {"lark-webhook", "dingtalk"}

\* The user a private message is addressed to, and the group of a group message.
UserID == "u1"
GroupID == "g1"

\* The messages: none, a text, and a card (types.MessageTypeCard) whose
\* Content is not valid JSON.
Messages == {"nil", "text", "badcard"}

\* One call of SendMessage, SendPrivateMessage or SendGroupMessage on one adapter.
InitSendEntryCall ==
    /\ adapter \in AllAdapters
    /\ entry \in {"SendMessage", "SendPrivateMessage", "SendGroupMessage"}
    /\ msg \in Messages
    /\ optsNil \in IF entry = "SendMessage" THEN BOOLEAN ELSE {FALSE}
    /\ targets \in IF entry = "SendMessage" /\ ~optsNil THEN TargetLists
                                                        ELSE {<<>>}
    /\ sendPc = IF entry = "SendMessage" THEN "start"
                ELSE IF entry = "SendPrivateMessage" THEN "private"
                ELSE "group"
    /\ idx = 0
    /\ retry = 0
    /\ lastErr = NoErr
    /\ successCount = 0
    /\ failedTargets = <<>>
    /\ sendRet = NoSendRet
    /\ tries = [i \in 1 .. Len(targets) |-> <<>>]
    /\ slept = [i \in 1 .. Len(targets) |-> <<>>]
    /\ posted = 0

\* SendPrivateMessage: the DingTalk robot refuses; the other adapters call
\* SendMessage with the one private target.
SendPrivateMessage_Call ==
    /\ sendPc = "private"
    /\ IF adapter = "dingtalk"
       THEN /\ sendRet' = [err |-> "dingtalk robot does not support private messages"]
            /\ sendPc' = "done"
            /\ UNCHANGED <<targets, tries, slept>>
       ELSE /\ targets' = <<[ID |-> UserID, ChatType |-> "private"]>>
            /\ tries' = <<(<<>>)>>
            /\ slept' = <<(<<>>)>>
            /\ sendPc' = "start"
            /\ sendRet' = sendRet
    /\ UNCHANGED <<adapter, idx, retry, lastErr, successCount, failedTargets,
                   entry, msg, optsNil, posted>>
    /\ UNCHANGED <<poolVars, tokenVars, callVars>>

\* SendGroupMessage: every adapter calls SendMessage with the one group target.
SendGroupMessage_Call ==
    /\ sendPc = "group"
    /\ targets' = <<[ID |-> GroupID, ChatType |-> "group"]>>
    /\ tries' = <<(<<>>)>>
    /\ slept' = <<(<<>>)>>
    /\ sendPc' = "start"
    /\ UNCHANGED <<adapter, idx, retry, lastErr, successCount, failedTargets,
                   sendRet, entry, msg, optsNil, posted>>
    /\ UNCHANGED <<poolVars, tokenVars, callVars>>

\* sendViaWebhook parses a card's Content before it builds the request; the
\* DingTalk robot sends a card as text.
CardNeverParsed == FALSE
CardRejected == adapter = "lark-webhook" /\ msg = "badcard"

\* The webhook send: one POST to the webhook URL, and the error of the
\* transport or of the platform's answer, if any; no POST for a card that
\* does not parse.
SendMessage_Webhook(ok) ==
    /\ sendPc = "webhook"
    /\ IF CardRejected
       THEN /\ posted' = posted
            /\ sendRet' = [err |-> "invalid card JSON"]
       ELSE /\ posted' = posted + 1
            /\ sendRet' = [err |-> IF ok THEN NoErr ELSE "webhook error"]
    /\ sendPc' = "done"
    /\ UNCHANGED <<adapter, targets, idx, retry, lastErr, successCount,
                   failedTargets, tries, slept, entry, msg, optsNil>>
    /\ UNCHANGED <<poolVars, tokenVars, callVars>>

\* The token requests NewClient made before it returned the adapter: Lark
\* outside webhook mode and WeChat fetch their first token, the others none.
ConstructionFetches(a) == IF a \in {"lark", "wechat"} THEN 1 ELSE 0

\* The adapter after construction, its token manager otherwise not observed.
InitSendEntryToken ==
    /\ kind = "-"
    /\ token = NoToken
    /\ tokenExpiry = 0
    /\ stored = NoStored
    /\ closed = FALSE
    /\ ownsHTTP = FALSE
    /\ idleCloses = 0
    /\ clock = 0
    /\ nextRefresh = ConstructionFetches(adapter)
    /\ tpc = [p \in Procs |-> "idle"]
    /\ resp = [p \in Procs |-> NoResp]
    /\ calls = [p \in Procs |-> 0]
    /\ tret = NoTokenRet

NextSendEntry ==
    \/ SendPrivateMessage_Call
    \/ SendGroupMessage_Call
    \/ SendMessage_Begin
    \/ \E ok \in BOOLEAN : SendMessage_Webhook(ok)
    \/ \E ok \in BOOLEAN : SendMessage_Attempt(ok)
    \/ SendMessage_Return

InitSendEntry == InitPool /\ InitSendEntryCall /\ InitSendEntryToken /\ InitCall

SpecSendEntry == InitSendEntry /\ [][NextSendEntry]_vars

\* ------------------------------------------------------------------ properties of the pool
\* The adapters built for key k on which the pool has not called Close.
LiveFor(k) == {i \in Insts : instKey[i] = k /\ closeCount[i] = 0}

C2_SameInstanceAgain ==
    [][\A p \in Procs :
          (InGetOrCreate(p) /\ pc'[p] = "idle" /\ ~dirty[p] /\ got[arg[p]] # {}) =>
              /\ ret'.err = "nil"
              /\ ret'.val \in got[arg[p]]
              /\ Size' = Size
              /\ clients' = clients]_vars

\* A fast-path hit has just returned the instance a first call created, with
\* the entry in place all the while.
C2_Witness ==
    /\ ret.op = "GetOrCreate"
    /\ ret.how = "fast"
    /\ got[ret.key] = {ret.val}
    /\ clients[ret.key] = ret.val
    /\ closeCount[ret.val] = 0
    /\ Size = 1

\* C3: an adapter instance GetOrCreate or Get returns is one on which the pool
\* has not called Close when the call returns.
C3_NeverHandsOutClosed ==
    (ret.op \in {"GetOrCreate", "Get"} /\ ret.val # NoInst) => closeCount[ret.val] = 0

\* C9: a cleanup pass (the handling of one tick) removes each entry whose idle
\* time now - lastUsed exceeds MaxIdleTime and calls Close() on it exactly
\* once; every entry with idle time <= MaxIdleTime stays, unclosed.
C9_TickEvictsIdleOnly ==
    [][(loop = "select" /\ tick /\ ~tick') =>
          \A k \in Keys : clients[k] # NoInst =>
              IF now - lastUsed[k] > MaxIdleTime
              THEN /\ clients'[k] = NoInst
                   /\ closeCount[clients[k]] = 0
                   /\ closeCount'[clients[k]] = 1
              ELSE /\ clients'[k] = clients[k]
                   /\ lastUsed'[k] = lastUsed[k]
                   /\ closeCount'[clients[k]] = 0]_vars

\* The first tick was handled: one entry was evicted and closed, another one,
\* last used before the tick and within MaxIdleTime of it, is still there.
C9_Witness ==
    /\ now = CleanupInterval
    /\ ~tick
    /\ evictIdle # {}
    /\ \E i \in Insts : closeCount[i] = 1 /\ clients[instKey[i]] = NoInst
    /\ \E k \in Keys : /\ clients[k] # NoInst
                       /\ lastUsed[k] < now
                       /\ now - lastUsed[k] <= MaxIdleTime
                       /\ closeCount[clients[k]] = 0

ReturnsGetOrCreate(p) == InGetOrCreate(p) /\ pc'[p] = "idle"
ReturnsNewIMClient == ret'.op = "NewIMClient"
\* The step is the exclusive section of p's GetOrCreate finding the key absent.
FindsAbsent(p) == pc[p] = "goc_miss" /\ clients[arg[p]] = NoInst

\* C4 as stated: with a config that fails Validate(), GetOrCreate (key present
\* or not) and NewIMClient return an error, and no entry is created.
C4_AsStated ==
    [][\A p \in Procs :
          ((ReturnsGetOrCreate(p) \/ ReturnsNewIMClient) /\ Validate(ret'.config) # "nil") =>
              /\ ret'.err # "nil"
              /\ ret'.val = NoInst
              /\ clients' = clients
              /\ Size' = Size]_vars

\* C4: with a config that fails Validate(), NewIMClient and a GetOrCreate that
\* finds the key absent return an error and no adapter; a GetOrCreate that
\* finds an entry returns the cached adapter without validating; in every
\* case no entry is created and Size() is unchanged.
C4_InvalidConfigRejected ==
    [][\A p \in Procs :
          ((ReturnsGetOrCreate(p) \/ ReturnsNewIMClient) /\ Validate(ret'.config) # "nil") =>
              /\ clients' = clients
              /\ Size' = Size
              /\ (ReturnsNewIMClient \/ FindsAbsent(p)) =>
                     ret'.err = InvalidConfigErr /\ ret'.val = NoInst
              /\ (ReturnsGetOrCreate(p) /\ ~FindsAbsent(p)) =>
                     ret'.err = "nil" /\ ret'.val # NoInst]_vars

\* GetOrCreate has just rejected an invalid config for an absent key, in a
\* pool that holds another entry.
C4_Witness ==
    /\ ret.op = "GetOrCreate"
    /\ Validate(ret.config) # "nil"
    /\ ret.err = InvalidConfigErr
    /\ clients[ret.key] = NoInst
    /\ Size = 1

\* C5 as stated: whenever the config's platform differs from the requested
\* one, construction (NewIMClient, a GetOrCreate that finds the key absent)
\* fails with the mismatch error, and nothing is built or inserted.
C5_AsStated ==
    [][\A p \in Procs :
          ((ReturnsNewIMClient \/ (ReturnsGetOrCreate(p) /\ FindsAbsent(p)))
             /\ GetPlatform(ret'.config) # ret'.platform) =>
              /\ ret'.err = MismatchErr
              /\ ret'.val = NoInst
              /\ clients' = clients
              /\ nextId' = nextId]_vars

\* C5: when the config's platform differs from the requested one, construction
\* (NewIMClient, a GetOrCreate that finds the key absent) fails and nothing is
\* built or inserted; the error is the mismatch error if the config passes
\* Validate(), and the invalid-config error if it does not.
C5_PlatformMismatchRejected ==
    [][\A p \in Procs :
          ((ReturnsNewIMClient \/ (ReturnsGetOrCreate(p) /\ FindsAbsent(p)))
             /\ GetPlatform(ret'.config) # ret'.platform) =>
              /\ ret'.err = IF Validate(ret'.config) = "nil"
                            THEN MismatchErr ELSE InvalidConfigErr
              /\ ret'.val = NoInst
              /\ clients' = clients
              /\ nextId' = nextId]_vars

\* GetOrCreate has just refused a valid config of another platform.
C5_Witness ==
    /\ ret.op = "GetOrCreate"
    /\ Validate(ret.config) = "nil"
    /\ GetPlatform(ret.config) # ret.platform
    /\ ret.err = MismatchErr
    /\ clients[ret.key] = NoInst

\* ------------------------------------------------------------------ properties of sending
TargetIdx == 1 .. Len(targets)
\* Target i was sent within its first three attempts.
Succeeded(i) == \E j \in 1 .. 3 : j <= Len(tries[i]) /\ tries[i][j]
\* The number of failed attempts made for target i.
Failures(i) == Cardinality({j \in 1 .. Len(tries[i]) : ~tries[i][j]})

\* The failed targets among the first n, in input order, each with the error
\* its last attempt returned.
RECURSIVE FailedUpTo(_)
FailedUpTo(n) ==
    IF n = 0 THEN <<>>
    ELSE IF Succeeded(n) THEN FailedUpTo(n - 1)
    ELSE Append(FailedUpTo(n - 1),
                [Target |-> targets[n], Error |-> AttemptErr(n, Len(tries[n]) - 1)])

RECURSIVE SumSeq(_)
SumSeq(q) == IF q = <<>> THEN 0 ELSE Head(q) + SumSeq(Tail(q))

\* C6: for a non-empty target list, SendMessage returns nil iff every target
\* succeeded within its 3 attempts; otherwise a SendError with TotalCount the
\* number of targets, SuccessCount the number of targets that succeeded, and
\* FailedTargets the targets that failed all 3 attempts, in input order, each
\* with the error of its last attempt.
C6_SendResult ==
    (sendPc = "done" /\ Len(targets) > 0) =>
        /\ sendRet.err = "nil" <=> \A i \in TargetIdx : Succeeded(i)
        /\ sendRet.err # "nil" =>
              /\ sendRet.err = "SendError"
              /\ sendRet.TotalCount = Len(targets)
              /\ sendRet.SuccessCount = Cardinality({i \in TargetIdx : Succeeded(i)})
              /\ sendRet.FailedTargets = FailedUpTo(Len(targets))
              /\ \A n \in 1 .. Len(sendRet.FailedTargets) :
                     sendRet.FailedTargets[n].Error.retry = 2
              /\ sendRet.SuccessCount + Len(sendRet.FailedTargets) = sendRet.TotalCount

\* Three targets: the first is sent at once, the second at its third attempt,
\* the third never; the call reports 2 of 3 and the third target.
C6_Witness ==
    /\ sendPc = "done"
    /\ Len(targets) = 3
    /\ tries = << <<TRUE>>, <<FALSE, FALSE, TRUE>>, <<FALSE, FALSE, FALSE>> >>
    /\ sendRet.err = "SendError"
    /\ sendRet.SuccessCount = 2
    /\ sendRet.TotalCount = 3
    /\ sendRet.FailedTargets = << [Target |-> targets[3], Error |-> AttemptErr(3, 2)] >>

\* C7: every target is attempted at most 3 times and nothing is attempted
\* after a target's first success; once the loop is over every target was
\* attempted at least once, and exactly 3 times if all its attempts failed,
\* whatever happened to the targets before it.
C7_AttemptsPerTarget ==
    \A i \in TargetIdx :
        /\ Len(tries[i]) <= 3
        /\ \A j \in 1 .. Len(tries[i]) : tries[i][j] => j = Len(tries[i])
        /\ sendPc \in {"return", "done"} =>
              /\ Len(tries[i]) >= 1
              /\ ~Succeeded(i) => Len(tries[i]) = 3

\* A target that failed three times is followed by one sent at its second attempt.
C7_Witness ==
    /\ sendPc = "done"
    /\ \E i, j \in TargetIdx :
          /\ i < j
          /\ tries[i] = <<FALSE, FALSE, FALSE>>
          /\ tries[j] = <<FALSE, TRUE>>

C11_CloseEmptiesPool ==
    [][\A p \in Procs :
          (pc[p] = "cl_wait" /\ pc'[p] = "idle") =>
              /\ \A k \in Keys : clients'[k] = NoInst
              /\ Size' = 0
              /\ ret'.op = "Close"
              /\ \A i \in Insts :
                     IF \E k \in Keys : clients[k] = i
                     THEN closeCount[i] = 0 /\ closeCount'[i] = 1
                     ELSE closeCount'[i] = closeCount[i]]_vars

\* Close has just returned from a pool that held two adapters: both keys are
\* gone and both adapters were closed once.
C11_Witness ==
    /\ ret.op = "Close"
    /\ Size = 0
    /\ nextId = 3
    /\ instKey[1] # instKey[2]
    /\ closeCount[1] = 1
    /\ closeCount[2] = 1

\* C13: whenever no writer is inside its exclusive section, p.clients and
\* p.lastUsed have the same key set.
C13_SameKeySet ==
    \A k \in Keys : clients[k] # NoInst <=> lastUsed[k] # NoTime

\* C14: Remove on a key that has no entry returns nil, closes no adapter, and
\* leaves p.clients, p.lastUsed and Size() unchanged.
C14_RemoveAbsentKey ==
    [][(ret'.op = "Remove" /\ clients[ret'.key] = NoInst) =>
          /\ ret'.err = "nil"
          /\ closeCount' = closeCount
          /\ clients' = clients
          /\ lastUsed' = lastUsed
          /\ Size' = Size]_vars

\* Remove has just returned for a key without entry, in a pool holding the
\* other key.
C14_Witness ==
    /\ ret.op = "Remove"
    /\ ret.err = "nil"
    /\ clients[ret.key] = NoInst
    /\ \A i \in Insts : closeCount[i] = 0
    /\ Size = 1

\* ------------------------------------------------------------------ shutdown, twice
\* A Close() call that finds p.closeChan closed: close(p.closeChan) panics
\* ("close of closed channel"), whether the first Close() has returned or is
\* still in wg.Wait().  Nothing recovers the panic: the program ends.
Close_Again(p) ==
    /\ pc[p] = "idle"
    /\ closeChan
    /\ pc' = [pc EXCEPT ![p] = "panicked"]
    /\ ret' = Result("Close", "panic", NoKey, "-", NoConfig, NoInst,
                     "panic: close of closed channel")
    /\ UNCHANGED <<clients, lastUsed, closeChan, loop, tick, now, nextId, instKey,
                   instPlatform, closeCount, arg, client, dirty, built, got,
                   evictIdle>>
    /\ UNCHANGED <<sendVars, tokenVars, callVars>>

Crashed == \E q \in Procs : pc[q] = "panicked"

\* The pool with Close() callable any number of times; the clock stands still.
NextShutdown ==
    \/ ~Crashed /\ \E p \in Procs, k \in Keys : GetOrCreate_Begin(p, k)
    \/ ~Crashed /\ \E p \in Procs, rq \in PoolRequests :
          GetOrCreate_Hit(p, rq.platform, rq.config)
    \/ ~Crashed /\ \E p \in Procs, rq \in PoolRequests, fetchOK \in BOOLEAN :
          GetOrCreate_Slow(p, rq.platform, rq.config, fetchOK)
    \/ ~Crashed /\ \E p \in Procs, k \in Keys, fails \in NoFailures : Remove(p, k, fails)
    \/ ~Crashed /\ \E p \in Procs : Size_Call(p)
    \/ ~Crashed /\ \E p \in Procs : Close_Begin(p)
    \/ ~Crashed /\ \E p \in Procs : Close_Again(p)
    \/ ~Crashed /\ \E p \in Procs, order \in InstOrders, fails \in NoFailures :
                      Close_Body(p, order, fails)
    \/ ~Crashed /\ cleanupLoop_Exit

SpecShutdown == Init /\ [][NextShutdown]_vars

\* ------------------------------------------------------------------ nil config
\* GetOrCreate with a nil types.Config.  The fast path and the double check
\* do not touch the config.  createClient calls config.Validate() first, with
\* no nil test: the call on a nil interface value is a run-time panic (nil
\* pointer dereference).  The deferred p.mu.Unlock() runs while the panic
\* unwinds, and the maps were not written.
NilCfg == Cfg("nil", FALSE, FALSE, FALSE, FALSE)
NilConfigPanic == "panic: invalid memory address or nil pointer dereference"

GetOrCreate_SlowNil(p, platform) ==
    /\ pc[p] = "goc_miss"
    /\ IF DoubleCheck(arg[p])
       THEN /\ lastUsed' = [lastUsed EXCEPT ![arg[p]] = now]
            /\ Return(p, Result("GetOrCreate", "rechecked", arg[p], platform, NilCfg,
                                clients[arg[p]], "nil"))
            /\ Handed(p, arg[p], clients[arg[p]])
       ELSE /\ pc' = [pc EXCEPT ![p] = "panicked"]
            /\ ret' = Result("GetOrCreate", "panic", arg[p], platform, NilCfg, NoInst,
                             NilConfigPanic)
            /\ UNCHANGED <<lastUsed, arg, client, dirty, got>>
    /\ UNCHANGED <<clients, closeChan, loop, tick, now, nextId, instKey,
                   instPlatform, closeCount, built, evictIdle>>
    /\ UNCHANGED <<sendVars, tokenVars, callVars>>

\* The pool called with valid, invalid and nil configs; the clock stands still.
NextNilConfig ==
    \/ ~Crashed /\ \E p \in Procs, k \in Keys : GetOrCreate_Begin(p, k)
    \/ ~Crashed /\ \E p \in Procs, rq \in PoolRequests :
          GetOrCreate_Hit(p, rq.platform, rq.config)
    \/ ~Crashed /\ \E p \in Procs, platform \in Platforms :
          GetOrCreate_Hit(p, platform, NilCfg)
    \/ ~Crashed /\ \E p \in Procs, rq \in PoolRequests, fetchOK \in BOOLEAN :
          GetOrCreate_Slow(p, rq.platform, rq.config, fetchOK)
    \/ ~Crashed /\ \E p \in Procs, platform \in Platforms : GetOrCreate_SlowNil(p, platform)
    \/ ~Crashed /\ \E p \in Procs, k \in Keys, fails \in NoFailures : Remove(p, k, fails)
    \/ ~Crashed /\ \E p \in Procs : Size_Call(p)

SpecNilConfig == Init /\ [][NextNilConfig]_vars

\* ------------------------------------------------------------------ locking
\* The pool's methods as sequences of operations on p.mu, on p.closeChan and
\* on p.wg.  What a method reads or writes in the maps is left out; the
\* outcome of its lookup (ok) is an input of the step that branches on it.
\*
\* sync.RWMutex: Lock() first excludes the other writers and announces itself,
\* which holds off every later RLock(), and then waits for the readers that
\* hold the lock to leave; RLock() waits while a writer is announced.

\* The cleanup goroutine, next to the callers of Procs.
Cleaner == "cleanupLoop"

\* `who` moves from label a to label b.
From(who, a, b) ==
    IF who = Cleaner
    THEN loop = a /\ loop' = b /\ pc' = pc
    ELSE pc[who] = a /\ pc' = [pc EXCEPT ![who] = b] /\ loop' = loop

RLock(who) == mu.w = "-" /\ mu' = [mu EXCEPT !.r = @ \cup {who}]
RUnlock(who) == mu' = [mu EXCEPT !.r = @ \ {who}]
LockAnnounce(who) == mu.w = "-" /\ mu' = [mu EXCEPT !.w = who]
LockDrained(who) == mu.w = who /\ mu.r = {} /\ mu' = mu
Unlock(who) == mu' = [mu EXCEPT !.w = "-"]

\* p.mu.Lock() ... p.mu.Unlock() entered at label a, left for label b.
Locked(who, a, b) ==
    \/ From(who, a, a \o "_wait") /\ LockAnnounce(who)
    \/ From(who, a \o "_wait", a \o "_held") /\ LockDrained(who)
    \/ From(who, a \o "_held", b) /\ Unlock(who)

\* p.mu.RLock() ... p.mu.RUnlock() entered at label a, left for label b.
ReadLocked(who, a, b) ==
    \/ From(who, a, a \o "_held") /\ RLock(who)
    \/ From(who, a \o "_held", b) /\ RUnlock(who)

\* What the steps on p.mu leave alone.
LockFrame ==
    /\ UNCHANGED <<clients, lastUsed, closeChan, tick, now, nextId, instKey,
                   instPlatform, closeCount, arg, client, ret, dirty, built, got,
                   evictIdle>>
    /\ UNCHANGED <<sendVars, tokenVars, ctxDone, tokenFailed, factory>>

\* A caller enters GetOrCreate, Get, Remove or Size.
LockOps == {"goc_rlock", "get_rlock", "rm_lock", "sz_rlock"}
mu_Call(p, first) ==
    /\ From(p, "idle", first)
    /\ mu' = mu
    /\ LockFrame

\* GetOrCreate: RLock, lookup, RUnlock; on a hit Lock, stamp, Unlock; on a
\* miss Lock, double check and createClient, deferred Unlock.
mu_GetOrCreate(p, ok) ==
    /\ \/ ReadLocked(p, "goc_rlock", IF ok THEN "goc_stamp" ELSE "goc_create")
       \/ Locked(p, "goc_stamp", "idle")
       \/ Locked(p, "goc_create", "idle")
    /\ LockFrame

\* A Get that keeps its read lock while it asks for the write lock.
Get_HitKeepsRLock(p) == mu' = mu
\* Get on a hit: p.mu.RUnlock() ahead of p.mu.Lock().
Get_HitRUnlock(p) == RUnlock(p)

\* Get: RLock, lookup; on a miss the deferred RUnlock; on a hit RUnlock, Lock,
\* stamp, Unlock, RLock, and the deferred RUnlock.
mu_Get(p, ok) ==
    /\ \/ From(p, "get_rlock", "get_rlock_held") /\ RLock(p)
       \/ /\ From(p, "get_rlock_held", IF ok THEN "get_stamp" ELSE "idle")
          /\ IF ok THEN Get_HitRUnlock(p) ELSE RUnlock(p)
       \/ Locked(p, "get_stamp", "get_rlock2")
       \/ ReadLocked(p, "get_rlock2", "idle")
    /\ LockFrame

\* Remove: Lock, delete, client.Close(), deferred Unlock.
mu_Remove(p) == Locked(p, "rm_lock", "idle") /\ LockFrame

\* Size: RLock, len, deferred RUnlock.
mu_Size(p) == ReadLocked(p, "sz_rlock", "idle") /\ LockFrame

\* Close after close(p.closeChan): p.wg.Wait(), then Lock, the loop over the
\* adapters, deferred Unlock.
mu_Close(p) ==
    /\ \/ From(p, "cl_wait", "cl_lock") /\ WaitReturns /\ mu' = mu
       \/ Locked(p, "cl_lock", "idle")
    /\ LockFrame

\* cleanupLoop: case <-ticker.C: p.cleanupIdle()
mu_cleanupLoop_Tick ==
    /\ From(Cleaner, "select", "ci_lock")
    /\ mu' = mu
    /\ LockFrame

\* cleanupIdle: Lock, the pass, deferred Unlock; back to the select.
mu_cleanupIdle == Locked(Cleaner, "ci_lock", "select") /\ LockFrame

NextLocks ==
    \/ \E p \in Procs, first \in LockOps : mu_Call(p, first)
    \/ \E p \in Procs, ok \in BOOLEAN : mu_GetOrCreate(p, ok)
    \/ \E p \in Procs, ok \in BOOLEAN : mu_Get(p, ok)
    \/ \E p \in Procs : mu_Remove(p)
    \/ \E p \in Procs : mu_Size(p)
    \/ \E p \in Procs : Close_Begin(p)
    \/ \E p \in Procs : mu_Close(p)
    \/ mu_cleanupLoop_Tick
    \/ mu_cleanupIdle
    \/ cleanupLoop_Exit

SpecLocks == Init /\ [][NextLocks]_vars

\* The steps of caller p inside the method it has entered.
mu_Steps(p) ==
    \/ \E ok \in BOOLEAN : mu_GetOrCreate(p, ok)
    \/ \E ok \in BOOLEAN : mu_Get(p, ok)
    \/ mu_Remove(p)
    \/ mu_Size(p)
    \/ mu_Close(p)

\* Scheduling: a goroutine that can take a step again and again takes one.
\* The Go scheduler runs every runnable goroutine; sync.Mutex hands the lock
\* to a waiter that has waited long (starvation mode), and RWMutex.Unlock
\* wakes the readers that wait; the select of cleanupLoop finds the ticker
\* ready at most once per interval, so it takes the closed channel.  Entering
\* a method and the ticker are under no obligation.
SpecLocksFair ==
    /\ Init
    /\ [][NextLocks]_vars
    /\ \A p \in Procs : SF_vars(mu_Steps(p))
    /\ SF_vars(mu_cleanupIdle)
    /\ SF_vars(cleanupLoop_Exit)

\* C12: a second call of pool.Close(), after or during the first, completes
\* without failing: no Close() call ends in a panic.
C12_SecondCloseCompletes ==
    ~Crashed /\ (ret.op = "Close" => ret.err = "nil")

\* ------------------------------------------------------------------ the token manager
\* One adapter with callers of getToken and Close, and a clock in seconds.
\* A section under c.tokenMu or c.closedMu is one step; the HTTP request of
\* refreshToken is a step of its own, and the clock may advance before the
\* response is stored.
MaxClock == 400
TimeStep == 100
MaxRefresh == 3
SafetyMargin == 300
\* The expire / expires_in values the platform answers with.
TTLs == {200, 400, 500}
TokenKinds == {"lark", "wechat", "telegram"}
HasToken == kind \in {"lark", "wechat"}

\* Other expiry computations and fresh tests: no margin; fresh up to and at expiry.
NewExpiryNoMargin(t, ttl) == t + ttl
TokenFreshAtExpiry == clock <= tokenExpiry

\* time.Now().Add(time.Duration(tokenResp.Expire-300) * time.Second)
NewExpiry(t, ttl) == t + (ttl - SafetyMargin)
\* time.Now().Before(c.tokenExpiry)
TokenFresh == clock < tokenExpiry

TokenResult(op, tok, err, cached, n) ==
    [op |-> op, token |-> tok, err |-> err, cached |-> cached, readNow |-> clock,
     readExpiry |-> tokenExpiry, refreshes |-> n]

\* The adapter after NewClient: lark and wechat fetched their first token
\* (refresh 1, at time 0); telegram keeps no token.
InitTokenCall ==
    /\ kind \in TokenKinds
    /\ ownsHTTP \in BOOLEAN
    /\ \E ttl \in TTLs :
          IF HasToken
          THEN /\ token = 1
               /\ tokenExpiry = NewExpiry(0, ttl)
               /\ stored = [by |-> 1, ttl |-> ttl, issued |-> 0, at |-> 0]
               /\ nextRefresh = 1
          ELSE /\ token = NoToken
               /\ tokenExpiry = 0
               /\ stored = NoStored
               /\ nextRefresh = 0
    /\ closed = FALSE
    /\ idleCloses = 0
    /\ clock = 0
    /\ tpc = [p \in Procs |-> "idle"]
    /\ resp = [p \in Procs |-> NoResp]
    /\ calls = [p \in Procs |-> 0]
    /\ tret = NoTokenRet

InitToken == InitPool /\ InitSendIdle /\ InitTokenCall /\ InitCall

Refreshing == {q \in Procs : tpc[q] = "refresh"}

\* getToken: RLock; the fresh test; a fresh token is returned from the cache,
\* otherwise RUnlock and on to refreshToken.
getToken_Check(p) ==
    /\ HasToken
    /\ tpc[p] = "idle"
    /\ IF TokenFresh
       THEN /\ tret' = TokenResult("getToken", token, "nil", TRUE, 0)
            /\ UNCHANGED <<tpc, calls>>
       ELSE /\ nextRefresh + Cardinality(Refreshing) < MaxRefresh
            /\ tpc' = [tpc EXCEPT ![p] = "refresh"]
            /\ calls' = [calls EXCEPT ![p] = 0]
            /\ tret' = NoTokenRet
    /\ UNCHANGED <<kind, token, tokenExpiry, stored, closed, ownsHTTP, idleCloses,
                   clock, nextRefresh, resp>>
    /\ UNCHANGED <<poolVars, sendVars, callVars>>

\* A getToken that sends the refresh request a second time when the first failed.
refreshToken_DoRetry(p, ok, ttl) ==
    /\ tpc[p] = "refresh"
    /\ nextRefresh' = nextRefresh + 1
    /\ IF ok
       THEN /\ resp' = [resp EXCEPT ![p] =
                          [id |-> nextRefresh + 1, ttl |-> ttl, issued |-> clock]]
            /\ calls' = [calls EXCEPT ![p] = @ + 1]
            /\ tpc' = [tpc EXCEPT ![p] = "store"]
            /\ tret' = NoTokenRet
       ELSE IF calls[p] = 0
       THEN /\ calls' = [calls EXCEPT ![p] = 1]
            /\ tret' = NoTokenRet
            /\ UNCHANGED <<tpc, resp>>
       ELSE /\ tret' = TokenResult("getToken", NoToken, "failed to get token", FALSE,
                                   calls[p] + 1)
            /\ calls' = [calls EXCEPT ![p] = 0]
            /\ tpc' = [tpc EXCEPT ![p] = "idle"]
            /\ resp' = resp
    /\ UNCHANGED <<kind, token, tokenExpiry, stored, closed, ownsHTTP, idleCloses,
                   clock>>
    /\ UNCHANGED <<poolVars, sendVars, callVars>>

\* refreshToken up to the decoded response: the request is sent; a transport
\* error or a non-zero code is returned through getToken ("", err).
refreshToken_Do(p, ok, ttl) ==
    /\ tpc[p] = "refresh"
    /\ nextRefresh' = nextRefresh + 1
    /\ IF ok
       THEN /\ resp' = [resp EXCEPT ![p] =
                          [id |-> nextRefresh + 1, ttl |-> ttl, issued |-> clock]]
            /\ calls' = [calls EXCEPT ![p] = @ + 1]
            /\ tpc' = [tpc EXCEPT ![p] = "store"]
            /\ tret' = NoTokenRet
       ELSE /\ tret' = TokenResult("getToken", NoToken, "failed to get token", FALSE,
                                   calls[p] + 1)
            /\ calls' = [calls EXCEPT ![p] = 0]
            /\ tpc' = [tpc EXCEPT ![p] = "idle"]
            /\ resp' = resp
    /\ UNCHANGED <<kind, token, tokenExpiry, stored, closed, ownsHTTP, idleCloses,
                   clock>>
    /\ UNCHANGED <<poolVars, sendVars, callVars>>

\* A store that writes the token and leaves the expiry of the refresh before.
refreshToken_StoreTorn(p) ==
    /\ tpc[p] = "store"
    /\ token' = resp[p].id
    /\ resp' = [resp EXCEPT ![p] = NoResp]
    /\ tpc' = [tpc EXCEPT ![p] = "reread"]
    /\ tret' = NoTokenRet
    /\ UNCHANGED <<kind, tokenExpiry, stored, closed, ownsHTTP, idleCloses, clock,
                   nextRefresh, calls>>
    /\ UNCHANGED <<poolVars, sendVars, callVars>>

\* refreshToken's exclusive section: token and expiry are written together.
refreshToken_Store(p) ==
    /\ tpc[p] = "store"
    /\ token' = resp[p].id
    /\ tokenExpiry' = NewExpiry(clock, resp[p].ttl)
    /\ stored' = [by |-> resp[p].id, ttl |-> resp[p].ttl, issued |-> resp[p].issued,
                  at |-> clock]
    /\ resp' = [resp EXCEPT ![p] = NoResp]
    /\ tpc' = [tpc EXCEPT ![p] = "reread"]
    /\ tret' = NoTokenRet
    /\ UNCHANGED <<kind, closed, ownsHTTP, idleCloses, clock, nextRefresh, calls>>
    /\ UNCHANGED <<poolVars, sendVars, callVars>>

\* getToken after refreshToken returned nil: RLock; token := c.token; RUnlock.
getToken_Reread(p) ==
    /\ tpc[p] = "reread"
    /\ tret' = TokenResult("getToken", token, "nil", FALSE, calls[p])
    /\ calls' = [calls EXCEPT ![p] = 0]
    /\ tpc' = [tpc EXCEPT ![p] = "idle"]
    /\ UNCHANGED <<kind, token, tokenExpiry, stored, closed, ownsHTTP, idleCloses,
                   clock, nextRefresh, resp>>
    /\ UNCHANGED <<poolVars, sendVars, callVars>>

\* A Close that clears the token on every call, closed or not.
Client_CloseAgain(p) ==
    /\ tpc[p] = "idle"
    /\ closed' = TRUE
    /\ idleCloses' = IF ~closed /\ ownsHTTP THEN idleCloses + 1 ELSE idleCloses
    /\ token' = NoToken
    /\ tret' = TokenResult("Close", NoToken, "nil", FALSE, 0)
    /\ UNCHANGED <<kind, tokenExpiry, stored, ownsHTTP, clock, nextRefresh, tpc,
                   resp, calls>>
    /\ UNCHANGED <<poolVars, sendVars, callVars>>

\* Client.Close of the adapter, all under c.closedMu: a closed adapter returns
\* nil at once; otherwise closed is set, an owned HTTP client drops its idle
\* connections, and lark / wechat clear c.token under c.tokenMu.
Client_Close(p) ==
    /\ tpc[p] = "idle"
    /\ IF closed
       THEN UNCHANGED <<closed, idleCloses, token>>
       ELSE /\ closed' = TRUE
            /\ idleCloses' = IF ownsHTTP THEN idleCloses + 1 ELSE idleCloses
            /\ token' = IF HasToken THEN NoToken ELSE token
    /\ tret' = TokenResult("Close", NoToken, "nil", FALSE, 0)
    /\ UNCHANGED <<kind, tokenExpiry, stored, ownsHTTP, clock, nextRefresh, tpc,
                   resp, calls>>
    /\ UNCHANGED <<poolVars, sendVars, callVars>>

\* Time passes.
AdvanceClock ==
    /\ clock < MaxClock
    /\ clock' = clock + TimeStep
    /\ tret' = NoTokenRet
    /\ UNCHANGED <<kind, token, tokenExpiry, stored, closed, ownsHTTP, idleCloses,
                   nextRefresh, tpc, resp, calls>>
    /\ UNCHANGED <<poolVars, sendVars, callVars>>

NextToken ==
    \/ \E p \in Procs : getToken_Check(p)
    \/ \E p \in Procs, ok \in BOOLEAN, ttl \in TTLs : refreshToken_Do(p, ok, ttl)
    \/ \E p \in Procs : refreshToken_Store(p)
    \/ \E p \in Procs : getToken_Reread(p)
    \/ \E p \in Procs : Client_Close(p)
    \/ AdvanceClock

SpecToken == InitToken /\ [][NextToken]_vars

\* ---------------------------------------------------------------------------
\* The factory over the four platforms: a config of any of the four config
\* types, with any of its required fields empty or set, passed to NewIMClient
\* with any platform constant.
\* ---------------------------------------------------------------------------
PlatformDingTalk == "dingtalk"
PlatformWeChat == "wechat"
PlatformWPSXZ == "wpsxz"
AllPlatforms == {PlatformLark, PlatformTelegram, PlatformDingTalk, PlatformWeChat,
                 PlatformWPSXZ}

\* The config types, and the fields their Validate() reads.
LarkConfig == "*lark.Config"
TelegramConfig == "*telegram.Config"
DingTalkConfig == "*dingtalk.Config"
WeChatConfig == "*wechat.Config"
ConfigFields ==
    [c \in {LarkConfig, TelegramConfig, DingTalkConfig, WeChatConfig} |->
        IF c = LarkConfig THEN {"AppID", "AppSecret", "WebhookURL"}
        ELSE IF c = TelegramConfig THEN {"BotToken"}
        ELSE IF c = DingTalkConfig THEN {"AccessToken"}
        ELSE {"CorpID", "CorpSecret"}]

\* A config value: its type, and the fields that are not empty.
AllConfigs ==
    UNION { {[type |-> c, set |-> f] : f \in SUBSET ConfigFields[c]} : c \in DOMAIN ConfigFields }

\* The nil types.Config, and implementations of the types.Config interface
\* from outside the four packages: whether Validate() passes, and the tag
\* GetPlatform() returns.
NilConfig == [type |-> "nil", set |-> {}]
OtherConfig == "other types.Config"
UnknownPlatform == "slack"
OtherConfigs ==
    { [type |-> OtherConfig, set |-> f, tag |-> t] :
          f \in SUBSET {"valid"}, t \in AllPlatforms \cup {UnknownPlatform} }

\* The arguments NewIMClient can be called with.
FactoryPlatforms == AllPlatforms \cup {UnknownPlatform}
FactoryConfigs == AllConfigs \cup OtherConfigs \cup {NilConfig}

\* The config type the convenience constructor of a platform builds
\* (NewLarkClient, NewLarkWebhookClient, NewTelegramClient, NewDingTalkClient,
\* NewWeChatClient); no constructor builds a config for PlatformWPSXZ.
OwnConfig(platform) ==
    IF platform = PlatformLark THEN LarkConfig
    ELSE IF platform = PlatformTelegram THEN TelegramConfig
    ELSE IF platform = PlatformDingTalk THEN DingTalkConfig
    ELSE IF platform = PlatformWeChat THEN WeChatConfig
    ELSE "-"

\* (c *Config) Validate() of the four packages.
Config_Validate(c) ==
    IF c.type = LarkConfig THEN
        IF "WebhookURL" \in c.set THEN "nil"
        ELSE IF "AppID" \notin c.set THEN "AppID is required"
        ELSE IF "AppSecret" \notin c.set THEN "AppSecret is required"
        ELSE "nil"
    ELSE IF c.type = TelegramConfig THEN
        IF "BotToken" \notin c.set THEN "BotToken is required" ELSE "nil"
    ELSE IF c.type = DingTalkConfig THEN
        IF "AccessToken" \notin c.set THEN "AccessToken is required" ELSE "nil"
    ELSE IF c.type = WeChatConfig THEN
        IF "CorpID" \notin c.set THEN "CorpID is required"
        ELSE IF "CorpSecret" \notin c.set THEN "CorpSecret is required"
        ELSE "nil"
    ELSE IF "valid" \notin c.set THEN "invalid" ELSE "nil"

\* A GetPlatform() that returns one tag for every config type.
Config_GetPlatformOneTag(c) == "lark"

\* (c *Config) GetPlatform() of the four packages: the string each returns.
Config_GetPlatform(c) ==
    IF c.type = LarkConfig THEN "lark"
    ELSE IF c.type = TelegramConfig THEN "telegram"
    ELSE IF c.type = DingTalkConfig THEN "dingtalk"
    ELSE IF c.type = WeChatConfig THEN "wechat"
    ELSE c.tag

\* (c *Client) GetPlatformName() of the four packages.
Client_GetPlatformName(c) ==
    IF c = "*lark.Client" THEN "lark"
    ELSE IF c = "*telegram.Client" THEN "telegram"
    ELSE IF c = "*dingtalk.Client" THEN "dingtalk"
    ELSE IF c = "*wechat.Client" THEN "wechat"
    ELSE "-"

\* One case of NewIMClient's switch: the type assertion, then the package's
\* NewClient, which fetches a token (lark outside webhook mode, wechat) or
\* has nothing to fail on (telegram, dingtalk).
SwitchCase(c, want, made, fetches, fetchOK, name) ==
    IF c.type # want
    THEN [err |-> "invalid config type for " \o name \o " platform", client |-> "nil",
          ctor |-> FALSE, net |-> FALSE]
    ELSE IF fetches /\ ~fetchOK
    THEN [err |-> "failed to get access token", client |-> "nil",
          ctor |-> TRUE, net |-> TRUE]
    ELSE [err |-> "nil", client |-> made, ctor |-> TRUE, net |-> fetches]

\* A return of NewIMClient ahead of the switch.
Rejected(e) == [err |-> e, client |-> "nil", ctor |-> FALSE, net |-> FALSE]

\* The switch of NewIMClient.
SwitchPlatform(platform, c, fetchOK) ==
    IF platform = PlatformLark
    THEN SwitchCase(c, LarkConfig, "*lark.Client", "WebhookURL" \notin c.set, fetchOK, "lark")
    ELSE IF platform = PlatformTelegram
    THEN SwitchCase(c, TelegramConfig, "*telegram.Client", FALSE, fetchOK, "telegram")
    ELSE IF platform = PlatformDingTalk
    THEN SwitchCase(c, DingTalkConfig, "*dingtalk.Client", FALSE, fetchOK, "dingtalk")
    ELSE IF platform = PlatformWeChat
    THEN SwitchCase(c, WeChatConfig, "*wechat.Client", TRUE, fetchOK, "wechat")
    ELSE Rejected("unsupported platform")

\* A NewIMClient that compares the platform before it validates the config.
NewIMClientPlatformFirst(platform, c, fetchOK) ==
    IF c = NilConfig THEN Rejected("config cannot be nil")
    ELSE IF Config_GetPlatform(c) # platform THEN Rejected(MismatchErr)
    ELSE IF Config_Validate(c) # "nil" THEN Rejected(InvalidConfigErr)
    ELSE SwitchPlatform(platform, c, fetchOK)

\* NewIMClient(platform, config): what it returns, whether an adapter
\* constructor ran (ctor) and whether a network call was made (net).
NewIMClient(platform, c, fetchOK) ==
    IF c = NilConfig THEN Rejected("config cannot be nil")
    ELSE IF Config_Validate(c) # "nil" THEN Rejected(InvalidConfigErr)
    ELSE IF Config_GetPlatform(c) # platform THEN Rejected(MismatchErr)
    ELSE SwitchPlatform(platform, c, fetchOK)

\* A caller is about to call NewIMClient(platform, config).
InitFactoryCall ==
    \E platform \in FactoryPlatforms, c \in FactoryConfigs :
        factory = [pc |-> "call", platform |-> platform, config |-> c,
                   err |-> "-", client |-> "nil", name |-> "-",
                   ctor |-> FALSE, net |-> FALSE]

InitFactory ==
    /\ InitPool /\ InitSendIdle /\ InitTokenIdle
    /\ ctxDone = FALSE
    /\ tokenFailed = {}
    /\ mu = NoLock
    /\ InitFactoryCall

\* NewIMClient returns; the caller reads GetPlatformName() of the client it got.
Factory_NewIMClient(fetchOK) ==
    /\ factory.pc = "call"
    /\ LET r == NewIMClient(factory.platform, factory.config, fetchOK) IN
       factory' = [factory EXCEPT !.pc = "done", !.err = r.err, !.client = r.client,
                                  !.name = Client_GetPlatformName(r.client),
                                  !.ctor = r.ctor, !.net = r.net]
    /\ UNCHANGED <<poolVars, sendVars, tokenVars, ctxDone, tokenFailed, mu>>

NextFactory == \E fetchOK \in BOOLEAN : Factory_NewIMClient(fetchOK)

SpecFactory == InitFactory /\ [][NextFactory]_vars

\* ---------------------------------------------------------------------------
\* The network calls of one caller's operation, and the ctx it passed: the
\* construction inside GetOrCreate(ctx, ...), or a SendMessage(ctx, ...) whose
\* attempts fetch the token (lark, wechat) and deliver.
\* ---------------------------------------------------------------------------
Sender == "p1"

\* The context a request is built with (http.NewRequestWithContext).
CallerCtx == "ctx"
BackgroundCtx == "context.Background()"
\* NewClient: client.refreshToken(context.Background())
InitialFetchCtx == BackgroundCtx
\* getToken(ctx): c.refreshToken(ctx)
RefreshCtx == CallerCtx
\* sendToSingleTarget(ctx, ...): http.NewRequestWithContext(ctx, "POST", url, ...)
DeliverCtx == CallerCtx

\* httpClient.Do on a request whose context is done returns the context's
\* error; otherwise the call succeeds or fails.
NetOutcomes(c) == IF c = CallerCtx /\ ctxDone THEN {FALSE} ELSE BOOLEAN

\* lark.NewClient fetches a token unless the config is in webhook mode.
NeedsFetch(c) == c.variant = "lark" /\ ~c.WebhookURL

\* Targets of the SendMessage call whose attempts are followed in their parts.
MaxAttemptTargets == 1

\* The caller's operation: GetOrCreate on the pool, or SendMessage on an
\* adapter the pool built (its first token fetched at time 0; the HTTP client
\* is the pool's).
InitAttemptCall ==
    \/ InitSendIdle /\ InitTokenIdle
    \/ /\ InitSendCall
       /\ Len(targets) \in 1 .. MaxAttemptTargets
       /\ InitTokenCall
       /\ kind = adapter
       /\ ~ownsHTTP

InitAttempt == InitPool /\ InitAttemptCall /\ InitCall

\* The caller cancels ctx, or its deadline passes.
Ctx_Cancel ==
    /\ ~ctxDone
    /\ ctxDone' = TRUE
    /\ UNCHANGED <<poolVars, sendVars, tokenVars, tokenFailed, factory, mu>>

\* An iteration whose failed getToken costs no attempt.
sendToSingleTargetFreeRetry(ok) ==
    /\ sendPc = "loop"
    /\ HasToken => tret.op = "getToken"
    /\ IF ~HasToken \/ tret.err = "nil"
       THEN /\ Attempt(ok)
            /\ tokenFailed' = tokenFailed
       ELSE /\ tokenFailed' = tokenFailed \cup {<<idx, retry>>}
            /\ UNCHANGED sendVars
    /\ tret' = NoTokenRet
    /\ UNCHANGED <<kind, token, tokenExpiry, stored, closed, ownsHTTP, idleCloses,
                   clock, nextRefresh, tpc, resp, calls>>
    /\ UNCHANGED <<poolVars, ctxDone, factory, mu>>

\* One iteration of the inner loop, sendToSingleTarget in its parts: getToken
\* has returned (lark, wechat); its error is the attempt's error, and no
\* request is sent; otherwise the message is posted, and the call's outcome
\* is the attempt's.
sendToSingleTarget(ok) ==
    /\ sendPc = "loop"
    /\ HasToken => tret.op = "getToken"
    /\ LET gotToken == ~HasToken \/ tret.err = "nil" IN
       /\ Attempt(gotToken /\ ok)
       /\ tokenFailed' = IF gotToken THEN tokenFailed
                         ELSE tokenFailed \cup {<<idx, retry>>}
    /\ tret' = NoTokenRet
    /\ UNCHANGED <<kind, token, tokenExpiry, stored, closed, ownsHTTP, idleCloses,
                   clock, nextRefresh, tpc, resp, calls>>
    /\ UNCHANGED <<poolVars, ctxDone, factory, mu>>

\* The attempt under way has not called getToken yet.
NeedsToken == sendPc = "loop" /\ tret.op # "getToken"

\* The operation is GetOrCreate(ctx, key, platform, config).
Caller_GetOrCreate ==
    /\ sendPc = "-"
    /\ \/ \E k \in Keys : GetOrCreate_Begin(Sender, k)
       \/ \E rq \in PoolRequests : GetOrCreate_Hit(Sender, rq.platform, rq.config)
       \/ \E rq \in PoolRequests, fetchOK \in NetOutcomes(InitialFetchCtx) :
             GetOrCreate_Slow(Sender, rq.platform, rq.config, fetchOK)

\* sendToSingleTarget calls getToken(ctx), which refreshes a stale token.
Caller_GetToken ==
    \/ NeedsToken /\ getToken_Check(Sender)
    \/ \E ok \in NetOutcomes(RefreshCtx), ttl \in TTLs : refreshToken_Do(Sender, ok, ttl)
    \/ refreshToken_Store(Sender)
    \/ getToken_Reread(Sender)

\* Time passes, outside the instant between getToken's return and the request.
Caller_Wait == tret.op # "getToken" /\ AdvanceClock

NextAttempt ==
    \/ Ctx_Cancel
    \/ Caller_GetOrCreate
    \/ SendMessage_Begin
    \/ Caller_GetToken
    \/ \E ok \in NetOutcomes(DeliverCtx) : sendToSingleTarget(ok)
    \/ SendMessage_Return
    \/ Caller_Wait

SpecAttempt == InitAttempt /\ [][NextAttempt]_vars

\* ------------------------------------------------------------------ properties of the token manager
\* C15: a getToken call made before the stored expiry sends no refresh request
\* and returns the cached token; a call made at or after the stored expiry
\* goes on to refreshToken, and sends exactly one refresh request before it
\* returns.
C15_RefreshOnlyWhenStale ==
    [][/\ \A p \in Procs : (tpc[p] = "idle" /\ tpc'[p] = "refresh") =>
              clock >= tokenExpiry
       /\ (tret'.op = "getToken" /\ tret'.cached) =>
              /\ clock < tokenExpiry
              /\ tret'.token = token
              /\ tret'.refreshes = 0
              /\ nextRefresh' = nextRefresh
       /\ (tret'.op = "getToken" /\ ~tret'.cached) => tret'.refreshes = 1]_vars

\* A getToken call has just returned the token of the one refresh it made.
C15_Witness ==
    /\ tret.op = "getToken"
    /\ ~tret.cached
    /\ tret.err = "nil"
    /\ tret.refreshes = 1
    /\ tret.token = token
    /\ token > 1

\* C16: the stored token is the token of the refresh that wrote the stored
\* expiry (or cleared by Close), however refreshes overlap; a token returned
\* from the cache is read together with that expiry.
C16_NoTornToken ==
    /\ token \in {NoToken, stored.by}
    /\ (tret.op = "getToken" /\ tret.cached) =>
           tret.token \in {NoToken, stored.by} /\ tret.readExpiry = tokenExpiry

\* Two refreshes overlap: the later request has stored its pair, the earlier
\* one is about to overwrite it.
C16_Witness ==
    \E p \in Procs :
        /\ tpc[p] = "store"
        /\ token # NoToken
        /\ token > resp[p].id
        /\ token = stored.by

\* C17 as stated: the stored expiry is the issue time of the token + ttl - 300 s,
\* and a token returned from the cache was read while now < stored expiry.
C17_AsStated ==
    /\ stored.by # NoToken => tokenExpiry = stored.issued + stored.ttl - 300
    /\ (tret.op = "getToken" /\ tret.cached) => tret.readNow < tret.readExpiry

\* C17: the stored expiry is the time at which the refresh stored its
\* response + ttl - 300 s, which is the issue time + ttl - 300 s or later (by
\* the time the response took to be stored); a token returned from the cache
\* was read while now < stored expiry.
C17_ExpiryFromStoreTime ==
    /\ stored.by # NoToken =>
           /\ tokenExpiry = stored.at + stored.ttl - 300
           /\ stored.issued <= stored.at
    /\ (tret.op = "getToken" /\ tret.cached) => tret.readNow < tret.readExpiry

\* A cached token was returned whose refresh was stored after time had passed
\* since its request.
C17_Witness ==
    /\ tret.op = "getToken"
    /\ tret.cached
    /\ tret.token = stored.by
    /\ stored.at > stored.issued

\* C18: the first Close() of an adapter sets closed and clears the token; a
\* Close() of a closed adapter returns nil and changes nothing, also when it
\* runs next to the first one.
C18_CloseIdempotent ==
    [][tret'.op = "Close" =>
          /\ tret'.err = "nil"
          /\ closed'
          /\ IF closed
             THEN /\ token' = token
                  /\ tokenExpiry' = tokenExpiry
                  /\ stored' = stored
                  /\ idleCloses' = idleCloses
             ELSE token' = NoToken]_vars

\* A second Close() has just returned: the token a refresh stored after the
\* first Close() is still there, and the idle connections were dropped once.
C18_Witness ==
    /\ tret.op = "Close"
    /\ closed
    /\ token # NoToken
    /\ idleCloses = 1
\* ---------------------------------------------------------------------------
\* Send entry points (SpecSendEntry)
\* ---------------------------------------------------------------------------

\* Nothing has gone out: no delivery attempt on any target (the token fetch of
\* an adapter is part of an attempt) and no webhook request.
NothingSent == posted = 0 /\ \A i \in DOMAIN tries : tries[i] = <<>>

\* The call has returned an error.
ReturnedError == sendPc = "done" /\ sendRet.err \notin {NoErr, NoSendRet.err}

\* C19: SendMessage with a nil message or nil options returns an error and
\* sends nothing; on the adapters that need explicit targets (Lark in API mode,
\* Telegram, WeChat) SendMessage with an empty target list returns an error
\* and makes no delivery attempt.
C19_ArgumentChecksFirst ==
    (/\ entry = "SendMessage"
     /\ \/ msg = "nil"
        \/ optsNil
        \/ adapter \in Adapters /\ Len(targets) = 0)
        => /\ NothingSent
           /\ sendPc \in {"start", "done"}
           /\ sendPc = "done" => ReturnedError

C19_Witness ==
    /\ entry = "SendMessage"
    /\ adapter = "dingtalk"
    /\ msg = "text"
    /\ optsNil
    /\ sendPc = "done"
    /\ sendRet.err = "message and options cannot be nil"
    /\ posted = 0

\* C20: SendPrivateMessage on an adapter that cannot deliver to a private
\* chat (the DingTalk robot, a webhook-only Lark client) returns an error and
\* sends no request.
C20_PrivateUnsupportedFailsFast ==
    (entry = "SendPrivateMessage" /\ adapter \in {"dingtalk", "lark-webhook"})
        => /\ posted = 0
           /\ sendPc # "webhook"
           /\ sendPc = "done" => ReturnedError

\* ---------------------------------------------------------------------------
\* Shutdown order, failing Close(), failed construction, Get
\* ---------------------------------------------------------------------------

\* Close() has returned: the channel is closed and no caller is inside Close.
CloseReturned == closeChan /\ \A p \in Procs : pc[p] # "cl_wait"

\* The keys with an entry in p.clients, and the instances stored there.
Present == {k \in Keys : clients[k] # NoInst}
Pooled == {clients[k] : k \in Present}

\* C25: Close closes the channel and waits for the cleanup goroutine to exit
\* before it closes any adapter, and no cleanup pass runs once Close has
\* returned.
C25_CloseJoinsCleanupLoop ==
    [][/\ ret'.op = "Close" => closeChan /\ loop = "exited"
       /\ ret'.op = "cleanupIdle" => ~CloseReturned]_vars

C25_Witness ==
    /\ ret.op = "Close"
    /\ ret.closed # <<>>
    /\ loop = "exited"
    /\ tick
    /\ CloseReturned

\* C26: Close returns nil exactly when every adapter's Close() returned nil,
\* and otherwise the error of the last adapter, in the order of the calls,
\* whose Close() failed; every adapter of the pool is closed once and removed
\* from both maps whether or not a Close() failed.
C26_CloseReturnsLastError ==
    [][ret'.op = "Close" =>
         /\ {ret'.closed[n] : n \in DOMAIN ret'.closed} = Pooled
         /\ Len(ret'.closed) = Cardinality(Pooled)
         /\ ret'.err = "nil" <=> ret'.failed = {}
         /\ ret'.failed # {} =>
              \E n \in DOMAIN ret'.closed :
                 /\ ret'.closed[n] \in ret'.failed
                 /\ ret'.err = CloseErr(ret'.closed[n])
                 /\ \A m \in DOMAIN ret'.closed : m > n => ret'.closed[m] \notin ret'.failed
         /\ \A k \in Keys : clients'[k] = NoInst
         /\ \A k \in Present : lastUsed'[k] = NoTime
         /\ \A i \in Insts :
              closeCount'[i] = closeCount[i] + (IF i \in Pooled THEN 1 ELSE 0)]_vars

C26_Witness ==
    /\ ret.op = "Close"
    /\ Len(ret.closed) = 2
    /\ ret.failed = {ret.closed[1], ret.closed[2]}
    /\ ret.err = CloseErr(ret.closed[2])
    /\ Size = 0

\* C27: a cleanup pass closes and removes from both maps every idle entry,
\* those whose Close() returns an error included, and reports no error.
C27_EvictionIgnoresCloseErrors ==
    [][ret'.op = "cleanupIdle" =>
         /\ ret'.err = "nil"
         /\ {ret'.closed[n] : n \in DOMAIN ret'.closed} = {clients[k] : k \in ToEvict}
         /\ \A k \in ToEvict :
              /\ clients'[k] = NoInst
              /\ lastUsed'[k] = NoTime
              /\ closeCount'[clients[k]] = closeCount[clients[k]] + 1
         /\ \A k \in Keys \ ToEvict :
              clients'[k] = clients[k] /\ lastUsed'[k] = lastUsed[k]]_vars

C27_Witness ==
    /\ ret.op = "cleanupIdle"
    /\ Len(ret.closed) = 2
    /\ ret.failed = {ret.closed[1]}
    /\ Size = 0
    /\ \A i \in ret.failed : closeCount[i] = 1
    /\ closeCount[ret.closed[2]] = 1
    /\ \A k \in Keys : lastUsed[k] = NoTime

\* C28: a GetOrCreate whose construction fails returns the error and no
\* adapter, and leaves both maps as they were, the key without an entry: the
\* lookups of the next GetOrCreate on the key miss, and it builds again.
C28_FailedBuildInsertsNothing ==
    [][(ret'.op = "GetOrCreate" /\ ret'.how = "failed") =>
         /\ ret'.err # "nil"
         /\ ret'.val = NoInst
         /\ clients' = clients
         /\ lastUsed' = lastUsed
         /\ clients'[ret'.key] = NoInst]_vars

C28_Witness ==
    /\ ret.op = "GetOrCreate"
    /\ ret.how = "failed"
    /\ ret.err = "failed to get access token"
    /\ clients[ret.key] = NoInst
    /\ lastUsed[ret.key] = NoTime

\* C29: Get changes neither map on a miss; on a hit it returns the stored
\* instance and sets the last-used time of the key, which has an entry, to
\* the current time; it creates no entry and changes no other entry.
C29_GetNeverCreates ==
    [][ret'.op = "Get" =>
         /\ clients' = clients
         /\ ret'.how = "miss" => ret'.val = NoInst /\ lastUsed' = lastUsed
         /\ ret'.how = "hit" =>
              /\ ret'.val = clients[ret'.key]
              /\ lastUsed[ret'.key] # NoTime
              /\ lastUsed' = [lastUsed EXCEPT ![ret'.key] = now]]_vars

\* C30: Remove of a present key deletes it from both maps, calls Close() once
\* on the removed adapter and returns what that Close() returned; the entry
\* is removed whether or not Close() failed.
C30_RemoveClosesOnce ==
    [][(ret'.op = "Remove" /\ clients[ret'.key] # NoInst) =>
         LET k == ret'.key
             i == clients[k]
         IN /\ clients' = [clients EXCEPT ![k] = NoInst]
            /\ lastUsed' = [lastUsed EXCEPT ![k] = NoTime]
            /\ closeCount' = [closeCount EXCEPT ![i] = @ + 1]
            /\ ret'.closed = <<i>>
            /\ ret'.err = IF i \in ret'.failed THEN CloseErr(i) ELSE "nil"]_vars

C30_Witness ==
    /\ ret.op = "Remove"
    /\ ret.failed = {ret.val}
    /\ ret.err = CloseErr(ret.val)
    /\ clients[ret.key] = NoInst
    /\ lastUsed[ret.key] = NoTime
    /\ closeCount[ret.val] = 1

\* ---------------------------------------------------------------------------
\* Failed refresh (SpecToken)
\* ---------------------------------------------------------------------------

\* C23: a getToken whose refresh fails returns the error and no token after
\* one refresh request, and leaves the stored token and expiry as they were.
C23_FailedRefreshSurfaces ==
    [][(tret'.op = "getToken" /\ tret'.err # "nil") =>
         /\ tret'.token = NoToken
         /\ tret'.refreshes = 1
         /\ nextRefresh' = nextRefresh + 1
         /\ token' = token
         /\ tokenExpiry' = tokenExpiry
         /\ stored' = stored]_vars

C23_Witness ==
    /\ tret.op = "getToken"
    /\ tret.err = "failed to get token"
    /\ tret.refreshes = 1
    /\ token = 1
    /\ stored.by = 1
    /\ tokenExpiry = NewExpiry(0, stored.ttl)
    /\ ~TokenFresh

\* ---------------------------------------------------------------------------
\* The caller's ctx, and attempts without a token (SpecAttempt)
\* ---------------------------------------------------------------------------

\* A network call of the caller's operation succeeds in this step: a token
\* request of getToken is answered, a message is delivered, or GetOrCreate
\* builds an adapter whose constructor fetched a token.
NetSuccess ==
    \/ resp[Sender] = NoResp /\ resp'[Sender] # NoResp
    \/ successCount' > successCount
    \/ nextId' > nextId /\ NeedsFetch(ret'.config)

\* C21: every network call of a caller's operation is bound to the caller's
\* ctx: once ctx is cancelled no delivery, no token refresh of a send and no
\* initial token fetch of a GetOrCreate goes through.
C21_CallsBoundToCallerCtx == [][ctxDone => ~NetSuccess]_vars

\* C24: an attempt whose getToken fails is one failed attempt of the target:
\* it is recorded as a failure, followed by the backoff of any failed attempt,
\* and counts towards the three attempts; the target's next attempt calls
\* getToken again and succeeds when the refresh and the delivery do.
C24_NoTokenIsFailedAttempt ==
    [][tokenFailed' # tokenFailed =>
         /\ tokenFailed' = tokenFailed \cup {<<idx, retry>>}
         /\ tries' = [tries EXCEPT ![idx] = Append(@, FALSE)]
         /\ Len(tries'[idx]) = retry + 1
         /\ successCount' = successCount
         /\ slept' = IF retry < maxRetries - 1
                     THEN [slept EXCEPT ![idx] = Append(@, 100 * (retry + 1))]
                     ELSE slept
         /\ IF retry + 1 < maxRetries
            THEN idx' = idx /\ retry' = retry + 1 /\ failedTargets' = failedTargets
            ELSE /\ Len(failedTargets') = Len(failedTargets) + 1
                 /\ failedTargets'[Len(failedTargets')].Target = targets[idx]
                 /\ idx' = idx + 1]_vars

C24_Witness ==
    /\ Len(targets) >= 1
    /\ tries[1] = <<FALSE, TRUE>>
    /\ tokenFailed = {<<1, 0>>}
    /\ slept[1] = <<100>>
    /\ successCount = 1
    /\ token = nextRefresh

\* ---------------------------------------------------------------------------
\* Platform tags (SpecFactory)
\* ---------------------------------------------------------------------------

\* C22: a config of a platform's own config type that passes Validate()
\* reports GetPlatform() equal to the platform, and the client NewIMClient
\* builds from it reports GetPlatformName() equal to the platform.
C22_PlatformRoundTrip ==
    (/\ factory.pc \in {"call", "done"}
     /\ factory.config.type = OwnConfig(factory.platform)
     /\ Config_Validate(factory.config) = "nil")
        => /\ Config_GetPlatform(factory.config) = factory.platform
           /\ factory.pc = "done" =>
                 /\ factory.err \in {"nil", "failed to get access token"}
                 /\ factory.err = "nil" => factory.name = factory.platform

C22_Witness ==
    /\ factory.pc = "done"
    /\ factory.platform = PlatformWeChat
    /\ factory.config = [type |-> WeChatConfig, set |-> {"CorpID", "CorpSecret"}]
    /\ factory.err = "nil"
    /\ factory.client = "*wechat.Client"
    /\ factory.name = "wechat"

\* ---------------------------------------------------------------------------
\* Tokens after Close, platforms of pooled adapters, the pool after Close
\* ---------------------------------------------------------------------------

\* C35: getToken never returns the empty token with a nil error.
C35_NoEmptyTokenReturned ==
    (tret.op = "getToken" /\ tret.err = "nil") => tret.token # NoToken

\* C36: the adapter a successful GetOrCreate returns belongs to the platform
\* the call asked for.
C36_ReturnedAdapterOfPlatform ==
    (ret.op = "GetOrCreate" /\ ret.err = "nil") => instPlatform[ret.val] = ret.platform

\* C37: once Close has returned the pool holds no adapter.
C37_PoolStaysEmptyAfterClose == CloseReturned => Size = 0

\* The instances the pool has built and inserted.
Inserted == 1 .. (nextId - 1)

\* C38: the pool calls Close() at most once on an instance, and an instance it
\* inserted is either still stored (and not closed) or was closed once.
C38_ClosedOnceOrPooled ==
    /\ \A i \in Insts : closeCount[i] <= 1
    /\ \A i \in Inserted :
          \/ i \in Pooled /\ closeCount[i] = 0
          \/ i \notin Pooled /\ closeCount[i] = 1

C38_Witness ==
    /\ nextId = 3
    /\ closeCount[1] = 1
    /\ 1 \notin Pooled
    /\ 2 \in Pooled
    /\ closeCount[2] = 0
    /\ evictIdle # {}

\* ---------------------------------------------------------------------------
\* Webhook-mode Lark, and the private / group entry points (SpecSendEntry)
\* ---------------------------------------------------------------------------

\* SendMessage on a Lark adapter in webhook mode, with a message and options.
WebhookSend == adapter = "lark-webhook" /\ entry = "SendMessage" /\ ~ArgsNil

\* No delivery attempt was made; getToken is called only inside an attempt.
NoAttempt == sendPc \notin {"loop", "return"} /\ \A i \in DOMAIN tries : tries[i] = <<>>

SingleTargetEntry ==
    /\ entry \in {"SendPrivateMessage", "SendGroupMessage"}
    /\ sendPc \notin {"private", "group"}
SingleTarget ==
    IF entry = "SendPrivateMessage" THEN [ID |-> UserID, ChatType |-> "private"]
    ELSE [ID |-> GroupID, ChatType |-> "group"]

\* What SendMessage does with one target: up to three attempts, and on
\* failure a SendError naming the target.
SingleTargetSend ==
    /\ targets = <<SingleTarget>>
    /\ Len(tries[1]) <= maxRetries
    /\ sendPc = "done" =>
          \/ /\ sendRet.err = NoErr
             /\ tries[1][Len(tries[1])]
          \/ /\ sendRet.err = "SendError"
             /\ tries[1] = <<FALSE, FALSE, FALSE>>
             /\ sendRet.SuccessCount = 0
             /\ sendRet.TotalCount = 1
             /\ Len(sendRet.FailedTargets) = 1
             /\ sendRet.FailedTargets[1].Target = SingleTarget

\* C34 as stated: on every Lark, Telegram and WeChat adapter and for every
\* message.
C34_AsStated ==
    (SingleTargetEntry /\ adapter \in Adapters \cup {"lark-webhook"}) => SingleTargetSend

\* C34: SendPrivateMessage and SendGroupMessage on Lark in API mode, Telegram
\* and WeChat, with a message, run SendMessage on the one target: at most
\* three attempts, and a delivery failure is a SendError with SuccessCount 0,
\* TotalCount 1 and that one failed target; without a message they return
\* SendMessage's argument error and attempt nothing.
C34_SingleTargetEntryPoints ==
    (SingleTargetEntry /\ adapter \in Adapters) =>
        /\ targets = <<SingleTarget>>
        /\ msg # "nil" => SingleTargetSend
        /\ msg = "nil" => /\ NothingSent
                          /\ sendPc = "done" =>
                                sendRet.err = "message and options cannot be nil"

C34_Witness ==
    /\ entry = "SendGroupMessage"
    /\ adapter = "wechat"
    /\ msg = "text"
    /\ sendPc = "done"
    /\ sendRet.err = "SendError"
    /\ tries = <<(<<FALSE, FALSE, FALSE>>)>>
    /\ slept = <<(<<100, 200>>)>>

\* ---------------------------------------------------------------------------
\* The order of the factory's checks (SpecFactory)
\* ---------------------------------------------------------------------------

\* The platforms the switch of NewIMClient has a case for.
Recognized == {PlatformLark, PlatformTelegram, PlatformDingTalk, PlatformWeChat}

\* The five rejections in the claimed order: whether each applies to the
\* call's arguments, and the error it produces.  The later checks read the
\* config, so they apply to a non-nil config only.  Check 4 applies to a
\* platform that expects a config type; check 5 to every other platform.
CheckFails(n, platform, c) ==
    IF n = 1 THEN c = NilConfig
    ELSE IF c = NilConfig THEN FALSE
    ELSE IF n = 2 THEN Config_Validate(c) # "nil"
    ELSE IF n = 3 THEN Config_GetPlatform(c) # platform
    ELSE IF n = 4 THEN platform \in Recognized /\ c.type # OwnConfig(platform)
    ELSE platform \notin Recognized
CheckErr(n, platform) ==
    IF n = 1 THEN "config cannot be nil"
    ELSE IF n = 2 THEN InvalidConfigErr
    ELSE IF n = 3 THEN MismatchErr
    ELSE IF n = 4 THEN "invalid config type for " \o platform \o " platform"
    ELSE "unsupported platform"
FailingChecks(platform, c) == {n \in 1 .. 5 : CheckFails(n, platform, c)}
FirstFailing(platform, c) ==
    CHOOSE n \in FailingChecks(platform, c) :
        \A m \in FailingChecks(platform, c) : n <= m

\* C31: NewIMClient returns the error of the first check, in the order nil
\* config, Validate(), platform tag, config type, unrecognized platform, that
\* the arguments fail, without running an adapter constructor or a network
\* call; when no check fails it runs the platform's constructor and returns
\* that constructor's result.
C31_FactoryCheckOrder ==
    factory.pc = "done" =>
        IF FailingChecks(factory.platform, factory.config) # {}
        THEN /\ factory.err =
                   CheckErr(FirstFailing(factory.platform, factory.config),
                            factory.platform)
             /\ factory.client = "nil"
             /\ ~factory.ctor
             /\ ~factory.net
        ELSE /\ factory.ctor
             /\ factory.err \in {"nil", "failed to get access token"}
             /\ factory.err = "nil" <=> factory.client # "nil"
             /\ factory.err # "nil" => factory.net

\* An invalid config of another platform is reported as invalid, not as
\* a platform mismatch.
C31_Witness ==
    /\ factory.pc = "done"
    /\ factory.platform = PlatformTelegram
    /\ factory.config = [type |-> LarkConfig, set |-> {"AppID"}]
    /\ FailingChecks(factory.platform, factory.config) = {2, 3, 4}
    /\ factory.err = InvalidConfigErr
    /\ ~factory.ctor

\* ---------------------------------------------------------------------------
\* The shared transport
\* ---------------------------------------------------------------------------

\* C33: a step in which the pool closes adapters (Remove, an eviction pass)
\* makes no CloseIdleConnections() call on the shared transport; the only such
\* call is the one of pool.Close(), made after the Close() of every adapter
\* that Close() closes.
C33_SharedTransportClosedByPoolOnly ==
    ret.idle = IF ret.op = "Close"
               THEN <<[on |-> HTTPPool, after |-> Len(ret.closed)]>>
               ELSE <<>>

C33_Witness ==
    /\ ret.op = "Close"
    /\ Len(ret.closed) = 2
    /\ ret.idle = <<[on |-> HTTPPool, after |-> 2]>>
    /\ closeCount = [i \in Insts |-> 1]

\* ---------------------------------------------------------------------------
\* GetOrCreate with a nil config (SpecNilConfig)
\* ---------------------------------------------------------------------------

\* C39: a GetOrCreate with a nil config that reaches createClient returns an
\* error; no caller crashes.
C39_NilConfigIsAnError ==
    /\ ~Crashed
    /\ (ret.op = "GetOrCreate" /\ ret.config = NilCfg /\ ret.how \notin {"fast", "rechecked"})
          => ret.how = "failed" /\ ret.err # "nil"

\* ---------------------------------------------------------------------------
\* Locking (SpecLocksFair)
\* ---------------------------------------------------------------------------

\* C40: every call of GetOrCreate, Get, Remove, Size and Close that a caller
\* has entered returns, and every cleanup pass ends.
C40_EveryCallReturns ==
    /\ \A p \in Procs : (pc[p] # "idle") ~> (pc[p] = "idle")
    /\ (loop \notin {"select", "exited"}) ~> (loop \in {"select", "exited"})

\* Close waits for the cleanup goroutine, which holds the write lock, while a
\* Get that has stamped waits to take its read lock again.
C40_Witness ==
    /\ pc["p1"] = "cl_wait"
    /\ pc["p2"] = "get_rlock2"
    /\ loop = "ci_lock_held"
    /\ mu = [w |-> Cleaner, r |-> {}]

====
